---- MODULE Spec2Model ----
(***************************************************************************)
(* Model of the data profiling and chart-data layer of the application:    *)
(* the column profiler, the unique-value lister and the row filter of      *)
(* views/DataStudio.tsx, and the chart data dispatcher the views call.     *)
(*                                                                         *)
(* Cell values.  A cell of a row is a JavaScript primitive.  It is a       *)
(* record [k, n, s]: k is the kind, n the numeric payload, s the text.     *)
(*   numbers are exact decimals counted in thousandths (Scale = 1000), so  *)
(*   Num(4) is 0.004 and Num(2500) is 2.5; the binary rounding of IEEE     *)
(*   doubles is not modelled.  NaN has its own kind, infinities are left   *)
(*   out.  Text is a sequence of UTF-16 code units.                        *)
(***************************************************************************)
EXTENDS Integers, Sequences, FiniteSets, TLC

VARIABLES data, orderedHeaders, searchTerm, columnFilters,
          columnStats, uniqueColumnValues, filteredData,
          config, chartData, lastOp,
          file, headers, currentView, notification, dashboardItems,
          chatMessages, loading, now, isLocked, enableSnap, lastArgs,
          itemsIsPrev, requests, timers

\* The state of the application shell, the chat and the board: the file
\* picked for upload, the header list, the current view, the notification,
\* the dashboard items, the chat messages, whether the chat awaits a
\* response, the reading of the millisecond clock, the board lock and the snapping switch of the board; lastArgs
\* records the arguments of the last operation and itemsIsPrev whether its
\* update of the dashboard items returned the list it was given; requests
\* counts the requests to the model that have not returned: that of the
\* mounted chat (own) and those of chats that were unmounted (orphaned);
\* timers holds whether the auto-hide effect has yet to run for the
\* notification in the state (effectPending) and whether a timer is armed,
\* for that notification ("current") or for one before it ("stale").
appVars == <<file, headers, currentView, notification, dashboardItems,
             chatMessages, loading, now, isLocked, enableSnap, lastArgs,
             itemsIsPrev, requests, timers>>

vars == <<data, orderedHeaders, searchTerm, columnFilters,
          columnStats, uniqueColumnValues, filteredData,
          config, chartData, lastOp, appVars>>

\* Largest number of rows of a row set.
MaxRows == 3

\* Largest number of values selected in the column filters at a time.
MaxSelected == 1

\* Largest number of rows of a row set given to the chart dispatcher.
MaxChartRows == 2

\* Largest number of rows of a row set given to the set-intersection computer.
MaxVennRows == 4

\* Largest number of data lines of an uploaded file.
MaxCsvLines == 1

\* Largest number of messages the user sends to the chat.
MaxSends == 1

\* Largest number of requests the user sends while opening and leaving the
\* chat.
MaxRequests == 2

\* Largest number of rows that are cleaned.
MaxCleanRows == 3

\* Largest number of items on the board.
MaxItems == 2

\* Largest reading of the millisecond clock.
MaxClock == 2

\* Largest coordinate of an item that is duplicated.
MaxCoord == 40

\* Thousandths per unit of a number cell.
Scale == 1000

\* Thousandths per hundredth: the grid of toFixed(2).
Centi == 10

----------------------------------------------------------------------------
\* Cell constructors

Null == [k |-> "null", n |-> 0, s |-> <<>>]

Undefined == [k |-> "undefined", n |-> 0, s |-> <<>>]

NaN == [k |-> "nan", n |-> 0, s |-> <<>>]

Num(n) == [k |-> "number", n |-> n, s |-> <<>>]

Str(s) == [k |-> "string", n |-> 0, s |-> s]

Bool(b) == [k |-> "boolean", n |-> IF b THEN 1 ELSE 0, s |-> <<>>]

\* Text literals, as UTF-16 code units.
S_true == <<116, 114, 117, 101>>

S_false == <<102, 97, 108, 115, 101>>

S_null == <<110, 117, 108, 108>>

S_undefined == <<117, 110, 100, 101, 102, 105, 110, 101, 100>>

S_NaN == <<78, 97, 78>>

S_empty == <<>>

S_B == <<66>>

S_1 == <<49>>

S_A == <<65>>

S_Intersection == <<73, 110, 116, 101, 114, 115, 101, 99, 116, 105, 111, 110>>

\* row[h]: the value of a property read, undefined when the row lacks the key.
Get(row, h) == IF h \in DOMAIN row THEN row[h] ELSE Undefined

----------------------------------------------------------------------------
\* String(v) and the orders the sorts use

RECURSIVE Digits(_)
\* Decimal digits of a natural number, most significant first.
Digits(m) == IF m < 10 THEN <<48 + m>> ELSE Append(Digits(m \div 10), 48 + (m % 10))

\* The fraction digits of f thousandths, trailing zeros dropped.
FracDigits(f) ==
  IF f % 100 = 0 THEN <<48 + (f \div 100)>>
  ELSE IF f % 10 = 0 THEN <<48 + (f \div 100), 48 + ((f \div 10) % 10)>>
  ELSE <<48 + (f \div 100), 48 + ((f \div 10) % 10), 48 + (f % 10)>>

\* Number.prototype.toString of a finite decimal.
NumToStr(n) ==
  LET a == IF n < 0 THEN -n ELSE n
      body == IF a % Scale = 0 THEN Digits(a \div Scale)
              ELSE Digits(a \div Scale) \o <<46>> \o FracDigits(a % Scale)
  IN IF n < 0 THEN <<45>> \o body ELSE body

\* String(v)
ToStr(v) ==
  CASE v.k = "null" -> S_null
    [] v.k = "undefined" -> S_undefined
    [] v.k = "nan" -> S_NaN
    [] v.k = "number" -> NumToStr(v.n)
    [] v.k = "boolean" -> IF v.n = 1 THEN S_true ELSE S_false
    [] OTHER -> v.s

RECURSIVE StrLess(_, _)
\* a < b for strings: the order of their UTF-16 code units.
StrLess(a, b) ==
  IF b = <<>> THEN FALSE
  ELSE IF a = <<>> THEN TRUE
  ELSE IF Head(a) # Head(b) THEN Head(a) < Head(b)
  ELSE StrLess(Tail(a), Tail(b))

StrLeq(a, b) == a = b \/ StrLess(a, b)

RECURSIVE InsertNum(_, _)
\* Insert x into the ascending sequence s, after the elements not greater.
InsertNum(x, s) ==
  IF s = <<>> THEN <<x>>
  ELSE IF x < Head(s) THEN <<x>> \o s
  ELSE <<Head(s)>> \o InsertNum(x, Tail(s))

RECURSIVE SortNumeric_lexicographic(_)
\* The sort without its comparator: numbers ordered by their string forms.
SortNumeric_lexicographic(ns) ==
  IF ns = <<>> THEN <<>>
  ELSE LET rest == SortNumeric_lexicographic(SubSeq(ns, 1, Len(ns) - 1))
           x == ns[Len(ns)]
           before == SelectSeq(rest, LAMBDA y : ~StrLess(NumToStr(x), NumToStr(y)))
           after == SelectSeq(rest, LAMBDA y : StrLess(NumToStr(x), NumToStr(y)))
       IN before \o <<x>> \o after

RECURSIVE SortNumeric(_)
\* [...numericValues].sort((a, b) => a - b): a stable ascending sort.
SortNumeric(ns) ==
  IF ns = <<>> THEN <<>>
  ELSE InsertNum(ns[Len(ns)], SortNumeric(SubSeq(ns, 1, Len(ns) - 1)))

RECURSIVE InsertStr(_, _)
InsertStr(x, s) ==
  IF s = <<>> THEN <<x>>
  ELSE IF StrLess(x, Head(s)) THEN <<x>> \o s
  ELSE <<Head(s)>> \o InsertStr(x, Tail(s))

\* The sort given a numeric comparator, which leaves strings where they are.
SortStrings_unsorted(ss) == ss

RECURSIVE SortStrings(_)
\* [...].sort() on strings: ascending by UTF-16 code units.
SortStrings(ss) ==
  IF ss = <<>> THEN <<>>
  ELSE InsertStr(ss[Len(ss)], SortStrings(SubSeq(ss, 1, Len(ss) - 1)))

RECURSIVE SumSeq(_)
SumSeq(ns) == IF ns = <<>> THEN 0 ELSE Head(ns) + SumSeq(Tail(ns))

\* Number((num / den).toFixed(2)) for num thousandths over den > 0: the
\* nearest hundredth, a tie going away from zero.
ToFixed2(num, den) ==
  LET a == IF num < 0 THEN -num ELSE num
      q == (2 * a + Centi * den) \div (2 * Centi * den)
  IN IF num < 0 THEN -(q * Centi) ELSE q * Centi

----------------------------------------------------------------------------
\* The column profiler (DataStudio.tsx, columnStats)

\* The validity test without its empty-string case.
isValid_ignoresEmptyString(val) == ~(val.k = "null" \/ val.k = "undefined")

\* val !== null && val !== undefined && val !== ''
isValid(val) == ~(val.k = "null" \/ val.k = "undefined" \/ (val.k = "string" /\ val.s = S_empty))

\* typeof val === 'number' && !isNaN(val)
isNumericValue(val) == val.k = "number"

\* typeof val === 'boolean' || val === 'true' || val === 'false' || val === 0 || val === 1
isBooleanValue(val) ==
  \/ val.k = "boolean"
  \/ (val.k = "string" /\ val.s \in {S_true, S_false})
  \/ (val.k = "number" /\ val.n \in {0, Scale})

\* data.map(row => row[header])
allValuesOf(d, header) == [i \in 1..Len(d) |-> Get(d[i], header)]

\* The payloads of the number cells of a sequence of cells, in order.
numbersOf(cells) ==
  LET nums == SelectSeq(cells, isNumericValue)
  IN [i \in 1..Len(nums) |-> nums[i].n]

\* The median of a non-empty ascending sequence, before its rounding, as the
\* pair <<numerator, denominator>>.
medianOf(sorted) ==
  LET mid == Len(sorted) \div 2
  IN IF Len(sorted) % 2 = 0 THEN <<sorted[mid] + sorted[mid + 1], 2>>
     ELSE <<sorted[mid + 1], 1>>

\* The body of orderedHeaders.forEach: the ColumnStats of one header.  An
\* optional field that is not set holds Undefined.
columnStat(d, header) ==
  LET allValues == allValuesOf(d, header)
      validValues == SelectSeq(allValues, isValid)
      missingCount == Len(allValues) - Len(validValues)
      numericValues == numbersOf(validValues)
      isNumeric == Len(numericValues) > 0 /\ 2 * Len(numericValues) > Len(validValues)
      isBoolean == \A i \in 1..Len(validValues) : isBooleanValue(validValues[i])
      type == IF isNumeric THEN "number" ELSE IF isBoolean THEN "boolean" ELSE "string"
      stat == [header |-> header, type |-> type,
               mean |-> Undefined, median |-> Undefined,
               min |-> Undefined, max |-> Undefined,
               validCount |-> Len(validValues), missingCount |-> missingCount,
               totalRows |-> Len(allValues)]
  IN IF isNumeric /\ Len(numericValues) > 0
     THEN LET sorted == SortNumeric(numericValues)
              sum == SumSeq(numericValues)
              median == medianOf(sorted)
          IN [stat EXCEPT !.mean = Num(ToFixed2(sum, Len(numericValues))),
                          !.median = Num(ToFixed2(median[1], median[2])),
                          !.min = Num(sorted[1]),
                          !.max = Num(sorted[Len(sorted)])]
     ELSE IF Len(validValues) > 0
     THEN LET sorted == SortStrings([i \in 1..Len(validValues) |-> ToStr(validValues[i])])
          IN [stat EXCEPT !.min = Str(sorted[1]), !.max = Str(sorted[Len(sorted)])]
     ELSE stat

\* The memo pushing a record only for a column with a valid value.
columnStatsMemo_skipsEmptyColumns(d, hs) ==
  IF Len(d) = 0 THEN <<>>
  ELSE LET all == [i \in 1..Len(hs) |-> columnStat(d, hs[i])]
       IN SelectSeq(all, LAMBDA st : st.validCount > 0)

\* The columnStats memo: no record at all for an empty row set, else one per
\* header in header order.
columnStatsMemo(d, hs) ==
  IF Len(d) = 0 THEN <<>>
  ELSE [i \in 1..Len(hs) |-> columnStat(d, hs[i])]

----------------------------------------------------------------------------
\* Unique values and filtering (DataStudio.tsx)

\* String.prototype.toLowerCase on the code units A..Z.
ToLowerCase(s) == [i \in 1..Len(s) |-> IF s[i] >= 65 /\ s[i] <= 90 THEN s[i] + 32 ELSE s[i]]

\* String.prototype.includes
Includes(s, t) == \E i \in 0..(Len(s) - Len(t)) : SubSeq(s, i + 1, i + Len(t)) = t

RECURSIVE CaseLess(_, _)
\* The tie-break of the collation: at the first difference of two strings
\* equal up to case, the lower-case letter comes first.
CaseLess(a, b) ==
  IF a = <<>> \/ b = <<>> THEN FALSE
  ELSE IF Head(a) # Head(b) THEN Head(a) > Head(b)
  ELSE CaseLess(Tail(a), Tail(b))

\* a.localeCompare(b) < 0 in the default collation, for text made of '-',
\* '.', digits and letters: letters compare without case first.
LocaleLess(a, b) ==
  IF ToLowerCase(a) # ToLowerCase(b) THEN StrLess(ToLowerCase(a), ToLowerCase(b))
  ELSE CaseLess(a, b)

RECURSIVE Dedup(_)
\* Array.from(new Set(values)): the first occurrence of each value, in order.
Dedup(vs) ==
  IF vs = <<>> THEN <<>>
  ELSE LET init == Dedup(SubSeq(vs, 1, Len(vs) - 1))
           x == vs[Len(vs)]
       IN IF \E i \in 1..Len(init) : init[i] = x THEN init ELSE Append(init, x)

RECURSIVE InsertLocale(_, _)
InsertLocale(x, s) ==
  IF s = <<>> THEN <<x>>
  ELSE IF LocaleLess(ToStr(x), ToStr(Head(s))) THEN <<x>> \o s
  ELSE <<Head(s)>> \o InsertLocale(x, Tail(s))

RECURSIVE SortLocale(_)
\* values.sort((a, b) => String(a).localeCompare(String(b)))
SortLocale(vs) ==
  IF vs = <<>> THEN <<>>
  ELSE InsertLocale(vs[Len(vs)], SortLocale(SubSeq(vs, 1, Len(vs) - 1)))

\* The set of the elements of a sequence.
Range(s) == {s[i] : i \in 1..Len(s)}

\* The memo sorting the rows themselves by the first header before it reads
\* them, instead of sorting the array built from the Set.
uniqueColumnValuesMemo_sortsRows(d, hs) ==
  LET key(r) == IF hs = <<>> THEN Undefined ELSE Get(r, hs[1])
      cells == SortLocale([i \in 1..Len(d) |-> key(d[i])])
      sortedRows == [i \in 1..Len(d) |-> [h \in DOMAIN d[i] |-> cells[i]]]
  IN [map |-> [h \in Range(hs) |-> SortLocale(Dedup(allValuesOf(sortedRows, h)))],
      rows |-> sortedRows]

\* The uniqueColumnValues memo.  It sorts the array built from the Set, so
\* the row set it leaves behind (rows) is the one it was given.
uniqueColumnValuesMemo(d, hs) ==
  [map |-> [h \in Range(hs) |-> SortLocale(Dedup(allValuesOf(d, h)))],
   rows |-> d]

\* orderedHeaders.some(h => String(row[h]).toLowerCase().includes(searchTerm.toLowerCase()))
matchesGlobal(row, hs, term) ==
  \E i \in 1..Len(hs) : Includes(ToLowerCase(ToStr(Get(row, hs[i]))), ToLowerCase(term))

\* Object.entries(columnFilters).every(...)
matchesFilters(row, filters) ==
  \A col \in DOMAIN filters : filters[col] = {} \/ Get(row, col) \in filters[col]

\* The predicate of data.filter in the filteredData memo.
rowMatches(row, hs, term, filters) ==
  matchesGlobal(row, hs, term) /\ matchesFilters(row, filters)

\* The filteredData memo; Array.prototype.filter builds a new array.
filteredDataMemo(d, hs, term, filters) ==
  LET keep(row) == rowMatches(row, hs, term, filters)
  IN [list |-> SelectSeq(d, keep), rows |-> d]

\* The columnStats memo with the row set it leaves behind: every array it
\* sorts is a copy ([...numericValues], [...validValues]).
columnStatsEffect(d, hs) == [stats |-> columnStatsMemo(d, hs), rows |-> d]

----------------------------------------------------------------------------
\* The chart data dispatcher, processChartData(rows, config) of
\* utils/chartUtils, after sections 4.1 and 4.3 to 4.7 of the specification.
\* A configuration is [type, xAxisKey, yAxisKeys, zAxisKey, aggregation]:
\* xAxisKey is the category key, yAxisKeys the value keys, zAxisKey the size
\* key; a key or an aggregation that is not given is the empty string.  An
\* output record is a function from field names to values; a number of the
\* output is an exact fraction of thousandths.

RECURSIVE Gcd(_, _)
Gcd(a, b) == IF b = 0 THEN a ELSE Gcd(b, a % b)

\* The fraction num/den (den > 0) of thousandths, in lowest terms.
Q(num, den) ==
  LET g == Gcd(IF num < 0 THEN -num ELSE num, den)
  IN [k |-> "number", n |-> num \div g, d |-> den \div g]

\* isMissing(v) of section 4.1.
isMissing(v) == v.k = "null" \/ v.k = "undefined" \/ (v.k = "string" /\ v.s = S_empty)

\* A text is an optional sign and digits with at most one point among them.
isDecimalText(s) ==
  LET body == IF s # <<>> /\ Head(s) \in {43, 45} THEN Tail(s) ELSE s
      points == {i \in 1..Len(body) : body[i] = 46}
      digits == {i \in 1..Len(body) : body[i] >= 48 /\ body[i] <= 57}
  IN digits # {} /\ Cardinality(points) <= 1 /\ points \cup digits = 1..Len(body)

RECURSIVE DigitsValue(_)
\* The natural number written by a sequence of digits.
DigitsValue(ds) ==
  IF ds = <<>> THEN 0 ELSE 10 * DigitsValue(SubSeq(ds, 1, Len(ds) - 1)) + (ds[Len(ds)] - 48)

\* The thousandths a decimal text of at most 3 fraction digits stands for.
parseDecimal(s) ==
  LET neg == s # <<>> /\ Head(s) = 45
      body == IF s # <<>> /\ Head(s) \in {43, 45} THEN Tail(s) ELSE s
      points == {i \in 1..Len(body) : body[i] = 46}
      p == IF points = {} THEN Len(body) + 1 ELSE CHOOSE i \in points : TRUE
      int == DigitsValue(SubSeq(body, 1, p - 1))
      frac3 == SubSeq(SubSeq(body, p + 1, Len(body)) \o <<48, 48, 48>>, 1, 3)
      abs == int * Scale + DigitsValue(frac3)
  IN IF neg THEN -abs ELSE abs

\* The coercion that also takes null and the empty string for the number 0.
asNumber_nullIsZero(v) ==
  IF v.k = "number" THEN v
  ELSE IF v.k = "null" \/ (v.k = "string" /\ v.s = S_empty) THEN Num(0)
  ELSE IF v.k = "string" /\ isDecimalText(v.s) THEN Num(parseDecimal(v.s))
  ELSE Undefined

\* asNumber(v) of section 4.1: the number v is, or a decimal text stands
\* for; Undefined signals "not numeric".
asNumber(v) ==
  IF v.k = "number" THEN v
  ELSE IF v.k = "string" /\ isDecimalText(v.s) THEN Num(parseDecimal(v.s))
  ELSE Undefined

\* asBooleanish(v) of section 4.1.
asBooleanish(v) ==
  \/ v.k = "boolean"
  \/ (v.k = "string" /\ v.s \in {S_true, S_false})
  \/ (v.k = "number" /\ v.n \in {0, Scale})

\* The label every missing value is given.
NullLabel == S_null

\* The category label of a row: the string form of row[categoryKey], and
\* the one null label for a missing value.
labelOf(row, key) == IF isMissing(Get(row, key)) THEN NullLabel ELSE ToStr(Get(row, key))

\* The numeric-valid contributions of a value key in a bucket, in row order.
numericOf(bucket, key) ==
  LET nums == SelectSeq([i \in 1..Len(bucket) |-> asNumber(Get(bucket[i], key))],
                        LAMBDA v : v.k = "number")
  IN [i \in 1..Len(nums) |-> nums[i].n]

\* The category labels of the rows in ascending code-unit order.
labelsOf_sorted(rows, key) ==
  SortStrings(Dedup([i \in 1..Len(rows) |-> labelOf(rows[i], key)]))

\* The category labels of the rows in first-seen order.
labelsOf(rows, key) == Dedup([i \in 1..Len(rows) |-> labelOf(rows[i], key)])

\* The rows of a bucket, in row order.
bucketOf(rows, key, label) == SelectSeq(rows, LAMBDA r : labelOf(r, key) = label)

\* The reduction whose count is the number of numeric contributions.
reduceBucket_countsNumeric(bucket, key, aggregation) ==
  LET nums == numericOf(bucket, key)
      sorted == SortNumeric(nums)
  IN CASE aggregation = "count" -> Q(Len(nums) * Scale, 1)
       [] aggregation = "avg" -> IF nums = <<>> THEN Q(0, 1) ELSE Q(SumSeq(nums), Len(nums))
       [] aggregation = "min" -> IF nums = <<>> THEN Undefined ELSE Q(sorted[1], 1)
       [] aggregation = "max" -> IF nums = <<>> THEN Undefined ELSE Q(sorted[Len(sorted)], 1)
       [] OTHER -> Q(SumSeq(nums), 1)

\* Step 4 of section 4.3: the value of one value key of one bucket; min and
\* max of a bucket without numeric contributions are absent (Undefined).
reduceBucket(bucket, key, aggregation) ==
  LET nums == numericOf(bucket, key)
      sorted == SortNumeric(nums)
  IN CASE aggregation = "count" -> Q(Len(bucket) * Scale, 1)
       [] aggregation = "avg" -> IF nums = <<>> THEN Q(0, 1) ELSE Q(SumSeq(nums), Len(nums))
       [] aggregation = "min" -> IF nums = <<>> THEN Undefined ELSE Q(sorted[1], 1)
       [] aggregation = "max" -> IF nums = <<>> THEN Undefined ELSE Q(sorted[Len(sorted)], 1)
       [] OTHER -> Q(SumSeq(nums), 1)

\* Section 4.3: one record per category label in first-seen order, with one
\* field per value key, or the row count as "value" without value keys.
groupAndAggregate(rows, cfg) ==
  LET labels == labelsOf(rows, cfg.xAxisKey)
      aggregation == IF cfg.aggregation = "" THEN "sum" ELSE cfg.aggregation
      record(label) ==
        LET bucket == bucketOf(rows, cfg.xAxisKey, label)
            keys == {cfg.yAxisKeys[i] : i \in 1..Len(cfg.yAxisKeys)}
            present == {key \in keys : reduceBucket(bucket, key, aggregation).k = "number"}
        IN IF cfg.yAxisKeys = <<>>
           THEN [f \in {"name", "value"} |->
                  IF f = "name" THEN Str(label) ELSE Q(Len(bucket) * Scale, 1)]
           ELSE [f \in {"name"} \cup present |->
                  IF f = "name" THEN Str(label) ELSE reduceBucket(bucket, f, aggregation)]
  IN [i \in 1..Len(labels) |-> record(labels[i])]

\* The first value key, or the empty string without one.
firstValueKey(cfg) == IF cfg.yAxisKeys = <<>> THEN "" ELSE cfg.yAxisKeys[1]

\* Section 4.7, scatter and bubble: one record per row whose required
\* fields are numeric: x and y, and for a bubble chart z as well.
scatterPoints(rows, cfg) ==
  LET x(r) == asNumber(Get(r, cfg.xAxisKey))
      y(r) == asNumber(Get(r, firstValueKey(cfg)))
      z(r) == asNumber(Get(r, cfg.zAxisKey))
      kept == SelectSeq(rows, LAMBDA r :
                /\ x(r).k = "number" /\ y(r).k = "number"
                /\ cfg.type = "bubble" => z(r).k = "number")
      point(r) ==
        [f \in {"x", "y"} \cup (IF z(r).k = "number" THEN {"z"} ELSE {}) |->
           CASE f = "x" -> Q(x(r).n, 1)
             [] f = "y" -> Q(y(r).n, 1)
             [] OTHER -> Q(z(r).n, 1)]
  IN [i \in 1..Len(kept) |-> point(kept[i])]

\* The median of a non-empty ascending sequence of thousandths.
medianQ(sorted) ==
  LET mid == Len(sorted) \div 2
  IN IF Len(sorted) % 2 = 0 THEN Q(sorted[mid] + sorted[mid + 1], 2)
     ELSE Q(sorted[mid + 1], 1)

\* Section 4.4: the five-number summary of the numbers of a bucket: q1 is
\* the median of the positions below floor(n/2), q3 that of the positions
\* from ceil(n/2) on; a half without elements takes the median itself.
fiveNumbers(label, nums) ==
  LET sorted == SortNumeric(nums)
      n == Len(sorted)
      lower == SubSeq(sorted, 1, n \div 2)
      upper == SubSeq(sorted, ((n + 1) \div 2) + 1, n)
  IN [f \in {"name", "min", "q1", "median", "q3", "max"} |->
       CASE f = "name" -> Str(label)
         [] f = "min" -> Q(sorted[1], 1)
         [] f = "max" -> Q(sorted[n], 1)
         [] f = "median" -> medianQ(sorted)
         [] f = "q1" -> IF lower = <<>> THEN medianQ(sorted) ELSE medianQ(lower)
         [] OTHER -> IF upper = <<>> THEN medianQ(sorted) ELSE medianQ(upper)]

\* Section 4.4: one record per bucket with a numeric value of the first
\* value key, in first-seen order; a bucket without one is dropped.
boxSummaries(rows, cfg) ==
  LET labels == SelectSeq(labelsOf(rows, cfg.xAxisKey), LAMBDA label :
                  numericOf(bucketOf(rows, cfg.xAxisKey, label), firstValueKey(cfg)) # <<>>)
  IN [i \in 1..Len(labels) |->
       fiveNumbers(labels[i],
                   numericOf(bucketOf(rows, cfg.xAxisKey, labels[i]), firstValueKey(cfg)))]

RECURSIVE Flatten(_)
Flatten(ss) == IF ss = <<>> THEN <<>> ELSE Head(ss) \o Flatten(Tail(ss))

\* Section 4.5: one record per observed pair of labels with its count, the
\* row labels in first-seen order and under each the column labels in
\* first-seen order; a pair never observed has no record.
densityCells(rows, cfg) ==
  LET rowLabels == labelsOf(rows, cfg.xAxisKey)
      colLabels == labelsOf(rows, firstValueKey(cfg))
      count(a, b) == Len(SelectSeq(rows, LAMBDA r :
                        labelOf(r, cfg.xAxisKey) = a /\ labelOf(r, firstValueKey(cfg)) = b))
      cell(a, b) == [f \in {"x", "y", "value"} |->
                      CASE f = "x" -> Str(a) [] f = "y" -> Str(b)
                        [] OTHER -> Q(count(a, b) * Scale, 1)]
      line(a) == LET cols == SelectSeq(colLabels, LAMBDA b : count(a, b) > 0)
                 IN [j \in 1..Len(cols) |-> cell(a, cols[j])]
  IN Flatten([i \in 1..Len(rowLabels) |-> line(rowLabels[i])])

\* Section 4.6: a row is a member of the set of a key when its value there
\* is boolean-ish and true: true, 'true' or 1.
isMember(row, key) ==
  LET v == Get(row, key)
  IN asBooleanish(v) /\ (v = Bool(TRUE) \/ v = Str(S_true) \/ v = Num(Scale))

\* A record of the set-intersection output.
vennRecord(name, count) ==
  [f \in {"name", "value"} |-> IF f = "name" THEN Str(name) ELSE Q(count * Scale, 1)]

\* The counts in which every member of A counts for A, those of both too.
vennCounts_countsAllOfA(rows, cfg) ==
  LET inA(r) == isMember(r, cfg.xAxisKey)
      inB(r) == isMember(r, firstValueKey(cfg))
      onlyA == Len(SelectSeq(rows, LAMBDA r : inA(r)))
      onlyB == Len(SelectSeq(rows, LAMBDA r : ~inA(r) /\ inB(r)))
      both == Len(SelectSeq(rows, LAMBDA r : inA(r) /\ inB(r)))
  IN <<vennRecord(S_A, onlyA), vennRecord(S_B, onlyB), vennRecord(S_Intersection, both)>>

\* Section 4.6: the three counts of the rows in A only, in B only, in both.
vennCounts(rows, cfg) ==
  LET inA(r) == isMember(r, cfg.xAxisKey)
      inB(r) == isMember(r, firstValueKey(cfg))
      onlyA == Len(SelectSeq(rows, LAMBDA r : inA(r) /\ ~inB(r)))
      onlyB == Len(SelectSeq(rows, LAMBDA r : ~inA(r) /\ inB(r)))
      both == Len(SelectSeq(rows, LAMBDA r : inA(r) /\ inB(r)))
  IN <<vennRecord(S_A, onlyA), vennRecord(S_B, onlyB), vennRecord(S_Intersection, both)>>

\* The chart types of the configuration.
GroupedTypes == {"bar", "line", "area", "pie", "doughnut"}

ChartTypes == GroupedTypes \cup {"scatter", "bubble", "heatmap", "contour", "box", "venn"}

\* The routing of section 4.7 for a recognized type and a category key.
routeChart(rows, cfg) ==
  CASE cfg.type \in GroupedTypes -> groupAndAggregate(rows, cfg)
    [] cfg.type \in {"scatter", "bubble"} -> scatterPoints(rows, cfg)
    [] cfg.type = "box" -> boxSummaries(rows, cfg)
    [] cfg.type \in {"heatmap", "contour"} -> densityCells(rows, cfg)
    [] cfg.type = "venn" -> vennCounts(rows, cfg)
    [] OTHER -> <<>>

\* The dispatcher that routes an empty row set like any other.
processChartData_routesEmptyRows(rows, cfg) ==
  IF cfg.type \notin ChartTypes \/ cfg.xAxisKey = "" THEN <<>>
  ELSE routeChart(rows, cfg)

\* Sections 4.7, 7 and 8: an unrecognized type, a missing category key and
\* an empty row set yield the empty sequence; otherwise the type routes.
processChartData(rows, cfg) ==
  IF cfg.type \notin ChartTypes \/ cfg.xAxisKey = "" \/ rows = <<>> THEN <<>>
  ELSE routeChart(rows, cfg)

----------------------------------------------------------------------------
\* The Data Studio view as a state machine

\* The cells a profiled row holds in column "v": both missing forms, a
\* numeric text, a boolean text, another text, a boolean, and the numbers
\* 0, 1, 2.004, -2.004 and 10.
ProfileCells ==
  {Null, Str(S_empty), Str(S_1), Str(S_true), Str(S_B), Bool(TRUE),
   Num(0), Num(Scale), Num(2004), Num(-2004), Num(10 * Scale)}

\* The cells of the rows the view is driven with.
StudioCells == {Null, Str(S_B), Num(10 * Scale)}

\* The row sets of at most MaxRows rows with the one key "v".
DataSetsOver(cells) ==
  UNION {[1..n -> {[h \in {"v"} |-> c] : c \in cells}] : n \in 0..MaxRows}

\* Header lists: none, the column of the rows, and with it a header no row
\* carries.
HeaderLists == {<<>>, <<"v">>, <<"v", "z">>}

\* The texts typed into the search box.
SearchTerms == {S_empty, S_B}

\* The number of values selected over all column filters.
RECURSIVE SelectedCount(_)
SelectedCount(filters) ==
  IF DOMAIN filters = {} THEN 0
  ELSE LET col == CHOOSE c \in DOMAIN filters : TRUE
       IN Cardinality(filters[col]) +
          SelectedCount([c \in DOMAIN filters \ {col} |-> filters[c]])

\* The visualization configuration the application starts with.
DefaultConfig ==
  [type |-> "bar", xAxisKey |-> "", yAxisKeys |-> <<>>, zAxisKey |-> "",
   aggregation |-> "sum"]

\* The greeting the chat starts with.
Greeting ==
  [id |-> 0, role |-> "model", content |-> [template |-> "Hello", args |-> <<>>],
   isToolOutput |-> FALSE]

\* The application shell as constructed, given the header list: the
\* Dashboard view, no notification, an empty board that is not locked and
\* snaps, and the greeting in the chat.
InitShell(hs) ==
  /\ headers = hs
  /\ currentView = "DASHBOARD"
  /\ notification = "none"
  /\ dashboardItems = <<>>
  /\ chatMessages = <<Greeting>>
  /\ loading = FALSE
  /\ now = 0
  /\ isLocked = FALSE
  /\ enableSnap = TRUE
  /\ lastArgs = <<>>
  /\ itemsIsPrev = FALSE
  /\ requests = [own |-> 0, orphaned |-> 0]
  /\ timers = [armed |-> "none", effectPending |-> FALSE]

\* setNotification({...}): the state holds a new notification, for which the
\* effect has yet to run; a timer that is armed is that of an older one.
notified ==
  [armed |-> IF timers.armed = "none" THEN "none" ELSE "stale", effectPending |-> TRUE]

\* The shell with no file picked.
InitApp(hs) ==
  /\ file = <<>>
  /\ InitShell(hs)

\* The view before its first render, given a row set and a header list.
InitView(dataSets) ==
  /\ data \in dataSets
  /\ orderedHeaders \in HeaderLists
  /\ searchTerm = S_empty
  /\ columnFilters = << >>
  /\ columnStats = <<>>
  /\ uniqueColumnValues = << >>
  /\ filteredData = <<>>
  /\ config = DefaultConfig
  /\ chartData = <<>>
  /\ lastOp = "init"
  /\ InitApp(orderedHeaders)

InitStudio == InitView(DataSetsOver(StudioCells))

InitProfile == InitView(DataSetsOver(ProfileCells))

\* One pass over the body of the component: the three memos in source order,
\* each given the row set the one before it left.
Render(hs, term, filters) ==
  LET u == uniqueColumnValuesMemo(data, hs)
      f == filteredDataMemo(u.rows, hs, term, filters)
      c == columnStatsEffect(f.rows, hs)
  IN /\ uniqueColumnValues' = u.map
     /\ filteredData' = f.list
     /\ columnStats' = c.stats
     /\ data' = c.rows

\* The first render of the view.
Mount ==
  /\ lastOp = "init"
  /\ Render(orderedHeaders, searchTerm, columnFilters)
  /\ lastOp' = "mount"
  /\ UNCHANGED <<orderedHeaders, searchTerm, columnFilters, config, chartData>>
  /\ UNCHANGED appVars

\* onChange of the search box, and the render it causes.
setSearchTerm(term) ==
  /\ lastOp # "init"
  /\ term # searchTerm
  /\ searchTerm' = term
  /\ Render(orderedHeaders, term, columnFilters)
  /\ lastOp' = "setSearchTerm"
  /\ UNCHANGED <<orderedHeaders, columnFilters, config, chartData>>
  /\ UNCHANGED appVars

\* The new filters of toggleFilterValue(column, value).
toggledFilters(filters, column, value) ==
  LET old == IF column \in DOMAIN filters THEN filters[column] ELSE {}
      newSet == IF value \in old THEN old \ {value} ELSE old \cup {value}
  IN [c \in DOMAIN filters \cup {column} |-> IF c = column THEN newSet ELSE filters[c]]

\* A click on a value of the filter menu of a column, and the render it
\* causes; the menu lists the unique values of the column.
toggleFilterValue(column, value) ==
  /\ lastOp # "init"
  /\ column \in DOMAIN uniqueColumnValues
  /\ value \in Range(uniqueColumnValues[column])
  /\ SelectedCount(toggledFilters(columnFilters, column, value)) <= MaxSelected
  /\ columnFilters' = toggledFilters(columnFilters, column, value)
  /\ Render(orderedHeaders, searchTerm, columnFilters')
  /\ lastOp' = "toggleFilterValue"
  /\ UNCHANGED <<orderedHeaders, searchTerm, config, chartData>>
  /\ UNCHANGED appVars

\* clearColumnFilter(column): the entry of the column is deleted.
clearColumnFilter(column) ==
  /\ lastOp # "init"
  /\ column \in DOMAIN columnFilters
  /\ columnFilters' = [c \in DOMAIN columnFilters \ {column} |-> columnFilters[c]]
  /\ Render(orderedHeaders, searchTerm, columnFilters')
  /\ lastOp' = "clearColumnFilter"
  /\ UNCHANGED <<orderedHeaders, searchTerm, config, chartData>>
  /\ UNCHANGED appVars

NextStudio ==
  \/ Mount
  \/ \E term \in SearchTerms : setSearchTerm(term)
  \/ \E column \in {"v", "z"} : \E value \in StudioCells \cup {Undefined} :
       toggleFilterValue(column, value)
  \/ \E column \in {"v", "z"} : clearColumnFilter(column)

----------------------------------------------------------------------------
\* The Visualization view as a state machine

\* The dispatcher with the row set it leaves behind: it borrows the rows
\* read-only (section 3).
processChartDataEffect(rows, cfg) == [out |-> processChartData(rows, cfg), rows |-> rows]

\* The cells of the rows given to the dispatcher: the category column "c"
\* holds a text, a boolean or null, the value column "v" holds null, the
\* numbers 1 and 2.004, or the numeric text '1'.
CategoryCells == {Str(S_B), Bool(TRUE), Null}

ValueCells == {Null, Num(Scale), Num(2004), Str(S_1)}

ChartRows == {[h \in {"c", "v"} |-> IF h = "c" THEN c ELSE v] : c \in CategoryCells, v \in ValueCells}

ChartDataSets == UNION {[1..n -> ChartRows] : n \in 0..MaxChartRows}

\* A configuration.
Config(type, x, ys, agg) ==
  [type |-> type, xAxisKey |-> x, yAxisKeys |-> ys, zAxisKey |-> "", aggregation |-> agg]

\* The configurations the view is given: every chart type and one that is
\* none, over the category column, with no value key, with the value column
\* and with a column no row has ("z"); every aggregation for a bar chart;
\* and every type without a category key.
ChartConfigs ==
  {Config(t, "c", ys, "sum") : t \in ChartTypes \cup {"radar"}, ys \in {<<>>, <<"v">>, <<"z">>}}
  \cup {Config("bar", "c", ys, agg) : ys \in {<<"v">>, <<"z">>}, agg \in {"avg", "min", "max", "count"}}
  \cup {Config(t, "", <<"v">>, "sum") : t \in ChartTypes \cup {"radar"}}
  \cup {[Config("bubble", "v", <<"v">>, "sum") EXCEPT !.zAxisKey = z] : z \in {"v", "z"}}

\* The view before its first render, given a row set and a configuration.
InitChart ==
  /\ data \in ChartDataSets
  /\ orderedHeaders = <<"c", "v">>
  /\ searchTerm = S_empty
  /\ columnFilters = << >>
  /\ columnStats = <<>>
  /\ uniqueColumnValues = << >>
  /\ filteredData = <<>>
  /\ config \in ChartConfigs \cup {DefaultConfig}
  /\ chartData = <<>>
  /\ lastOp = "init"
  /\ InitApp(orderedHeaders)

\* The chartData memo of a render of the view.
renderChart ==
  /\ chartData' = processChartDataEffect(data, config).out
  /\ data' = processChartDataEffect(data, config).rows
  /\ lastOp' = "renderChart"
  /\ UNCHANGED <<orderedHeaders, searchTerm, columnFilters, columnStats,
                 uniqueColumnValues, filteredData, config>>
  /\ UNCHANGED appVars

\* setConfig(cfg), and the render it causes.
setConfig(cfg) ==
  /\ cfg # config
  /\ config' = cfg
  /\ chartData' = processChartDataEffect(data, cfg).out
  /\ data' = processChartDataEffect(data, cfg).rows
  /\ lastOp' = "setConfig"
  /\ UNCHANGED <<orderedHeaders, searchTerm, columnFilters, columnStats,
                 uniqueColumnValues, filteredData>>
  /\ UNCHANGED appVars

\* The dispatcher on its own: the first render of every row set under
\* every configuration.
NextChart == renderChart

SpecChart == InitChart /\ [][NextChart]_vars

\* The configuration the two views are driven with together.
ViewConfigs == {Config("box", "v", <<"v">>, "sum")}

\* The Data Studio and the Visualization view over the same row set.
NextViews ==
  \/ NextStudio
  \/ renderChart
  \/ \E cfg \in ViewConfigs : setConfig(cfg)

SpecViews == InitStudio /\ [][NextViews]_vars

\* The profiler on its own: the first render of every row set.
NextProfile == Mount

SpecProfile == InitProfile /\ [][NextProfile]_vars

----------------------------------------------------------------------------
\* Properties of the column profiler

\* The view has rendered: the memos hold what they computed from data.
Rendered == lastOp # "init"

\* The values of a column that exist at all in the sense of the data model:
\* null, undefined and the empty string are missing.
IsMissing(v) == v = Null \/ v = Undefined \/ v = Str(S_empty)

\* The indices of the rows whose cell of header h satisfies Test.
RowsWhere(h, Test(_)) == {r \in 1..Len(data) : Test(Get(data[r], h))}

\* The rows with a number in column h, and those with any valid value.
NumberRows(h) == RowsWhere(h, LAMBDA v : v.k = "number")

ValidRows(h) == RowsWhere(h, LAMBDA v : ~IsMissing(v))

\* The number of column h in row r.
NumAt(h, r) == Get(data[r], h).n

Abs(x) == IF x < 0 THEN -x ELSE x

\* m is num/den rounded to 2 decimals: a multiple of a hundredth at most
\* half a hundredth away, and on a tie the one farther from zero.
IsRoundedTo2(m, num, den) ==
  /\ m % Centi = 0
  /\ 2 * Abs(m * den - num) <= Centi * den
  /\ 2 * Abs(m * den - num) = Centi * den => Abs(m * den) > Abs(num)

\* C1: every ColumnStats has validCount + missingCount = totalRows, the
\* total being the number of rows and the missing ones being exactly the
\* cells that are null, undefined or the empty string.
C1_CountsAddUp ==
  Rendered =>
    \A i \in 1..Len(columnStats) :
      LET st == columnStats[i]
      IN /\ st.validCount + st.missingCount = st.totalRows
         /\ st.totalRows = Len(data)
         /\ st.missingCount = Cardinality(RowsWhere(st.header, IsMissing))

\* A column with values of both sorts has been profiled.
C1_Witness ==
  /\ Rendered
  /\ \E i \in 1..Len(columnStats) :
       columnStats[i].missingCount > 0 /\ columnStats[i].validCount > 0

\* C2: for every column classified numeric, the stored (rounded) mean and
\* median lie between the stored minimum and maximum.
C2_StoredStatsWithinExtremes ==
  Rendered =>
    \A i \in 1..Len(columnStats) :
      LET st == columnStats[i]
      IN st.type = "number" =>
           /\ st.min.n <= st.median.n /\ st.median.n <= st.max.n
           /\ st.min.n <= st.mean.n /\ st.mean.n <= st.max.n

\* A text that parses fully as a decimal number: an optional sign, digits
\* with at most one point among them, at least one digit.
ParsesAsDecimal(s) ==
  LET body == IF s # <<>> /\ Head(s) \in {43, 45} THEN Tail(s) ELSE s
      points == {i \in 1..Len(body) : body[i] = 46}
      digits == {i \in 1..Len(body) : body[i] >= 48 /\ body[i] <= 57}
  IN /\ digits # {}
     /\ Cardinality(points) <= 1
     /\ points \cup digits = 1..Len(body)

\* asNumber of the data model: a finite number, or a text that parses fully.
IsNumericBySpec(v) == v.k = "number" \/ (v.k = "string" /\ ParsesAsDecimal(v.s))

\* asBooleanish of the data model.
IsBooleanishBySpec(v) ==
  \/ v.k = "boolean"
  \/ v = Str(S_true) \/ v = Str(S_false)
  \/ v = Num(0) \/ v = Num(Scale)

\* C3: a column is numeric exactly when more than half of its valid values
\* are numeric (numbers, or texts that parse as decimal numbers), otherwise
\* boolean exactly when every valid value is boolean-ish, otherwise text.
C3_ClassificationBySpec ==
  Rendered =>
    \A i \in 1..Len(columnStats) :
      LET st == columnStats[i]
          valid == ValidRows(st.header)
          numeric == {r \in valid : IsNumericBySpec(Get(data[r], st.header))}
          kind == IF 2 * Cardinality(numeric) > Cardinality(valid) THEN "number"
                  ELSE IF \A r \in valid : IsBooleanishBySpec(Get(data[r], st.header))
                       THEN "boolean" ELSE "string"
      IN st.type = kind

\* The optional statistics of a record are all absent.
NoStatistics(st) ==
  st.mean = Undefined /\ st.median = Undefined /\ st.min = Undefined /\ st.max = Undefined

\* The record of position i is the one of header i, and that of an empty
\* column has validCount 0 and no statistics.
StatOfHeader(i) ==
  LET st == columnStats[i]
  IN /\ st.header = orderedHeaders[i]
     /\ st.type \in {"number", "boolean", "string"}
     /\ st.validCount = Cardinality(ValidRows(st.header))
     /\ ValidRows(st.header) = {} => st.validCount = 0 /\ NoStatistics(st)

\* C4 as stated: whatever the row set, the empty one included, the profiler
\* yields one record per header.
C4_OneStatPerHeader ==
  Rendered =>
    /\ Len(columnStats) = Len(orderedHeaders)
    /\ \A i \in 1..Len(columnStats) : StatOfHeader(i)

\* C4: for a non-empty row set the profiler yields one record per header, in
\* header order, the record of an empty column having validCount 0 and no
\* mean, median, min or max; for an empty row set it yields no record.
C4_OneStatPerHeaderOfNonEmptyRowSet ==
  Rendered =>
    IF Len(data) = 0 THEN columnStats = <<>>
    ELSE /\ Len(columnStats) = Len(orderedHeaders)
         /\ \A i \in 1..Len(columnStats) : StatOfHeader(i)

\* A header no row carries has been profiled next to a column with values.
C4_Witness ==
  /\ Rendered
  /\ Len(data) > 0
  /\ \E i, j \in 1..Len(columnStats) :
       columnStats[i].validCount = 0 /\ columnStats[j].validCount > 0

\* The numbers of column h at or below the middle of their ascending order:
\* lo is the element of 0-based position floor((n - 1) / 2), hi the one of
\* position floor(n / 2); they are the same element when n is odd.
MiddlePair(h) ==
  LET rows == NumberRows(h)
      n == Cardinality(rows)
      AtPosition(x, p) ==
        /\ Cardinality({r \in rows : NumAt(h, r) < x}) <= p
        /\ Cardinality({r \in rows : NumAt(h, r) > x}) <= n - 1 - p
      lo == CHOOSE x \in {NumAt(h, r) : r \in rows} : AtPosition(x, (n - 1) \div 2)
      hi == CHOOSE x \in {NumAt(h, r) : r \in rows} : AtPosition(x, n \div 2)
  IN <<lo, hi>>

\* The sum of the numbers of column h over a set of rows.
RECURSIVE SumOver(_, _)
SumOver(h, rows) ==
  IF rows = {} THEN 0
  ELSE LET r == CHOOSE x \in rows : TRUE
       IN NumAt(h, r) + SumOver(h, rows \ {r})

\* The mean, minimum and maximum of a numeric record are those of the numbers
\* of its column alone: the mean rounded to 2 decimals, the extremes as is.
MeanMinMaxOfNumbers(st) ==
  LET rows == NumberRows(st.header)
  IN /\ IsRoundedTo2(st.mean.n, SumOver(st.header, rows), Cardinality(rows))
     /\ \E r \in rows : st.min = Get(data[r], st.header)
     /\ \E r \in rows : st.max = Get(data[r], st.header)
     /\ \A r \in rows : st.min.n <= NumAt(st.header, r) /\ NumAt(st.header, r) <= st.max.n

C6_LexicographicExtremes ==
  Rendered =>
    \A i \in 1..Len(columnStats) :
      LET st == columnStats[i]
          forms == {ToStr(Get(data[r], st.header)) : r \in ValidRows(st.header)}
      IN (st.type # "number" /\ forms # {}) =>
           /\ st.min.k = "string" /\ st.min.s \in forms
           /\ st.max.k = "string" /\ st.max.s \in forms
           /\ \A f \in forms : StrLeq(st.min.s, f) /\ StrLeq(f, st.max.s)
           /\ StrLeq(st.min.s, st.max.s)
           /\ st.mean = Undefined /\ st.median = Undefined

\* A column that is not numeric, holds a number among its valid values and
\* has two different extremes, the first valid value not being the least.
C6_Witness ==
  /\ Rendered
  /\ \E i \in 1..Len(columnStats) :
       LET st == columnStats[i]
       IN /\ st.type # "number"
          /\ NumberRows(st.header) # {}
          /\ st.min # st.max
          /\ st.min.k = "string"
          /\ \E r \in ValidRows(st.header) :
               StrLess(st.min.s, ToStr(Get(data[r], st.header)))

----------------------------------------------------------------------------
\* Properties of the views and of the dispatcher

ChartComputed == lastOp = "renderChart"

WithNullColumn(rows, key) ==
  [i \in 1..Len(rows) |-> [h \in DOMAIN rows[i] \cup {key} |->
                             IF h = key THEN Null ELSE rows[i][h]]]

\* An output record is a function from field names to texts and numbers.
IsOutputRecord(rec) ==
  /\ DOMAIN rec \subseteq {"name", "value", "x", "y", "z", "min", "q1", "median", "q3", "max", "v"}
  /\ \A f \in DOMAIN rec : rec[f].k \in {"string", "number"}

\* C10: the dispatcher always returns a sequence of output records; for an
\* unrecognized chart type and for an empty category key the sequence is
\* empty; a value key naming a column no row has gives the output of a
\* column of null values.
C10_TotalDispatcher ==
  ChartComputed =>
    /\ \A i \in 1..Len(chartData) : IsOutputRecord(chartData[i])
    /\ config.type \notin ChartTypes => chartData = <<>>
    /\ config.xAxisKey = "" => chartData = <<>>
    /\ config.yAxisKeys = <<"z">> =>
         chartData = processChartData(WithNullColumn(data, "z"), config)

\* A bar chart of the minimum of a column no row has was computed on rows of
\* two categories.
C10_Witness ==
  /\ ChartComputed
  /\ config.type = "bar" /\ config.aggregation = "min" /\ config.yAxisKeys = <<"z">>
  /\ Len(chartData) = 2

----------------------------------------------------------------------------
\* Properties of the grouping engine

\* The category label of row r of data under the configuration.
LabelAt(r) == labelOf(data[r], config.xAxisKey)

\* The first row of data that carries a label.
FirstRowOf(label) ==
  CHOOSE r \in 1..Len(data) : LabelAt(r) = label /\ \A q \in 1..(r - 1) : LabelAt(q) # label

\* A grouped chart has been computed over a category key.
GroupedComputed == ChartComputed /\ config.type \in GroupedTypes /\ config.xAxisKey # ""

\* C11: for the grouped chart types the output has exactly one record per
\* distinct category label of the rows, and the records are in the order in
\* which their labels first occur among the rows, not in sorted order.
C11_FirstSeenOrder ==
  GroupedComputed =>
    /\ \A r \in 1..Len(data) : \E i \in 1..Len(chartData) : chartData[i].name = Str(LabelAt(r))
    /\ \A i \in 1..Len(chartData) : \E r \in 1..Len(data) : chartData[i].name = Str(LabelAt(r))
    /\ \A i, j \in 1..Len(chartData) :
         i < j => /\ chartData[i].name # chartData[j].name
                  /\ FirstRowOf(chartData[i].name.s) < FirstRowOf(chartData[j].name.s)

\* A bar chart was computed on rows whose labels first occur as 'true' and
\* then 'B': the records are in that order, the reverse of the sorted one.
C11_Witness ==
  /\ GroupedComputed
  /\ config.type = "bar"
  /\ Len(chartData) = 2
  /\ chartData[1].name = Str(S_true) /\ chartData[2].name = Str(S_B)
  /\ StrLess(S_B, S_true)

\* The rows of data with the cells vs in the value column "v".
WithValues(vs) == [i \in 1..Len(data) |-> [data[i] EXCEPT !["v"] = vs[i]]]

\* The number of rows of data whose category label is the name of a record.
RowsNamed(rec) == Cardinality({r \in 1..Len(data) : Str(LabelAt(r)) = rec.name})

\* A grouped chart of counts has been computed for value keys.
CountComputed ==
  GroupedComputed /\ config.aggregation = "count" /\ config.yAxisKeys # <<>>

\* C12: with the aggregation count every value key of every record holds
\* the number of rows of its bucket, and the output is the same for every
\* other content of the value column under the same category column.
C12_CountIgnoresValues ==
  CountComputed =>
    /\ \A i \in 1..Len(chartData) : \A key \in Range(config.yAxisKeys) :
         /\ key \in DOMAIN chartData[i]
         /\ chartData[i][key] = Q(RowsNamed(chartData[i]) * Scale, 1)
    /\ \A vs \in [1..Len(data) -> ValueCells] :
         processChartData(WithValues(vs), config) = chartData

\* Counts of the value column were computed for a bucket of two rows whose
\* values are null and a text.
C12_Witness ==
  /\ CountComputed
  /\ config.yAxisKeys = <<"v">>
  /\ Len(data) = 2 /\ Len(chartData) = 1
  /\ data[1]["v"] = Null /\ data[2]["v"] = Str(S_1)
  /\ chartData[1]["v"] = Q(2 * Scale, 1)

----------------------------------------------------------------------------
\* The set-intersection computer on its own

\* The rows of two membership columns: "p" holds a boolean, "q" a boolean
\* or null.
VennRows ==
  {[h \in {"p", "q"} |-> IF h = "p" THEN p ELSE q] :
     p \in {Bool(TRUE), Bool(FALSE)}, q \in {Bool(TRUE), Bool(FALSE), Null}}

VennDataSets == UNION {[1..n -> VennRows] : n \in 0..MaxVennRows}

\* The Visualization view before its first render, given a venn chart of
\* the two columns.
InitVenn ==
  /\ data \in VennDataSets
  /\ orderedHeaders = <<"p", "q">>
  /\ searchTerm = S_empty
  /\ columnFilters = << >>
  /\ columnStats = <<>>
  /\ uniqueColumnValues = << >>
  /\ filteredData = <<>>
  /\ config = Config("venn", "p", <<"q">>, "sum")
  /\ chartData = <<>>
  /\ lastOp = "init"
  /\ InitApp(orderedHeaders)

SpecVenn == InitVenn /\ [][NextChart]_vars

\* The rows of data that are members of the sets A and B the way inA and
\* inB say.
RowsIn(inA, inB) ==
  {r \in 1..Len(data) : /\ (data[r]["p"] = Bool(TRUE)) = inA
                        /\ (data[r]["q"] = Bool(TRUE)) = inB}

\* The three records of the venn output for data.
ThreeRecords ==
  <<[name |-> Str(S_A), value |-> Q(Cardinality(RowsIn(TRUE, FALSE)) * Scale, 1)],
    [name |-> Str(S_B), value |-> Q(Cardinality(RowsIn(FALSE, TRUE)) * Scale, 1)],
    [name |-> Str(S_Intersection), value |-> Q(Cardinality(RowsIn(TRUE, TRUE)) * Scale, 1)]>>

\* A venn chart of the two membership columns has been computed.
VennComputed ==
  ChartComputed /\ config.type = "venn" /\ config.xAxisKey = "p" /\ config.yAxisKeys = <<"q">>

----------------------------------------------------------------------------
\* The file upload of App.tsx

\* White space of String.prototype.trim among the code units of the files.
IsSpace(c) == c \in {9, 10, 13, 32}

RECURSIVE TrimStart(_)
TrimStart(s) == IF s # <<>> /\ IsSpace(Head(s)) THEN TrimStart(Tail(s)) ELSE s

RECURSIVE TrimEnd(_)
TrimEnd(s) ==
  IF s # <<>> /\ IsSpace(s[Len(s)]) THEN TrimEnd(SubSeq(s, 1, Len(s) - 1)) ELSE s

\* s.trim()
Trim(s) == TrimEnd(TrimStart(s))

\* s.replace(/^"|"$/g, ''): a quote at the start and a quote at the end go.
StripQuotes(s) ==
  LET a == IF s # <<>> /\ Head(s) = 34 THEN Tail(s) ELSE s
  IN IF a # <<>> /\ a[Len(a)] = 34 THEN SubSeq(a, 1, Len(a) - 1) ELSE a

RECURSIVE SplitLines(_)
\* text.split(/\r?\n/)
SplitLines(t) ==
  LET nl == {i \in 1..Len(t) : t[i] = 10}
      i == CHOOSE j \in nl : \A k \in nl : j <= k
      raw == SubSeq(t, 1, i - 1)
      line == IF raw # <<>> /\ raw[Len(raw)] = 13 THEN SubSeq(raw, 1, Len(raw) - 1) ELSE raw
  IN IF nl = {} THEN <<t>> ELSE <<line>> \o SplitLines(SubSeq(t, i + 1, Len(t)))

\* The lines of a file that are not blank.
fileLines(t) == SelectSeq(SplitLines(t), LAMBDA line : Trim(line) # <<>>)

RECURSIVE scanCSVLine(_, _, _, _, _)
\* The loop of parseCSVLine from position i on: a quote toggles inQuotes and
\* is dropped, a comma outside quotes ends a value, any other code unit
\* joins the value.
scanCSVLine(line, i, curVal, inQuotes, result) ==
  IF i > Len(line) THEN Append(result, StripQuotes(Trim(curVal)))
  ELSE IF line[i] = 34 THEN scanCSVLine(line, i + 1, curVal, ~inQuotes, result)
  ELSE IF line[i] = 44 /\ ~inQuotes
       THEN scanCSVLine(line, i + 1, <<>>, inQuotes, Append(result, StripQuotes(Trim(curVal))))
  ELSE scanCSVLine(line, i + 1, Append(curVal, line[i]), inQuotes, result)

parseCSVLine(line) == scanCSVLine(line, 1, <<>>, FALSE, <<>>)

\* Digits with at most one point among them and at least one digit.
IsUnsignedDecimal(s) ==
  /\ \A i \in 1..Len(s) : s[i] = 46 \/ (s[i] >= 48 /\ s[i] <= 57)
  /\ Cardinality({i \in 1..Len(s) : s[i] = 46}) <= 1
  /\ \E i \in 1..Len(s) : s[i] # 46

RECURSIVE DecimalDigits(_)
DecimalDigits(ds) ==
  IF ds = <<>> THEN 0 ELSE 10 * DecimalDigits(SubSeq(ds, 1, Len(ds) - 1)) + (ds[Len(ds)] - 48)

\* The thousandths of an unsigned decimal of at most 3 fraction digits.
UnsignedDecimalValue(s) ==
  LET points == {i \in 1..Len(s) : s[i] = 46}
      p == IF points = {} THEN Len(s) + 1 ELSE CHOOSE i \in points : TRUE
      frac3 == SubSeq(SubSeq(s, p + 1, Len(s)) \o <<48, 48, 48>>, 1, 3)
  IN DecimalDigits(SubSeq(s, 1, p - 1)) * Scale + DecimalDigits(frac3)

\* The sign a numeric text starts with, and the text after it.
SignOf(s) == IF s # <<>> /\ Head(s) = 45 THEN -1 ELSE 1

Unsigned(s) == IF s # <<>> /\ Head(s) \in {43, 45} THEN Tail(s) ELSE s

\* parseFloat(val): the longest decimal literal the text starts with after
\* its leading white space, NaN without one (exponents and Infinity are not
\* among the texts of the files).
parseFloat(val) ==
  LET s == TrimStart(val)
      body == Unsigned(s)
      ns == {n \in 1..Len(body) : IsUnsignedDecimal(SubSeq(body, 1, n))}
      n == CHOOSE m \in ns : \A k \in ns : k <= m
  IN IF ns = {} THEN NaN ELSE Num(SignOf(s) * UnsignedDecimalValue(SubSeq(body, 1, n)))

\* The value of a hexadecimal digit, -1 for any other code unit.
HexDigit(c) ==
  IF c >= 48 /\ c <= 57 THEN c - 48
  ELSE IF c >= 97 /\ c <= 102 THEN c - 87
  ELSE IF c >= 65 /\ c <= 70 THEN c - 55
  ELSE -1

RECURSIVE HexValue(_)
HexValue(ds) ==
  IF ds = <<>> THEN 0 ELSE 16 * HexValue(SubSeq(ds, 1, Len(ds) - 1)) + HexDigit(ds[Len(ds)])

\* Number(val): 0 for a blank text, the value of a hexadecimal literal 0x..,
\* the value of a signed decimal literal that is the whole trimmed text, and
\* NaN otherwise (exponents, binary and octal literals and Infinity are not
\* among the texts of the files).
ToNumber(val) ==
  LET s == Trim(val)
      hex == SubSeq(s, 3, Len(s))
  IN IF s = <<>> THEN Num(0)
     ELSE IF Len(s) > 2 /\ s[1] = 48 /\ s[2] \in {88, 120}
             /\ \A i \in 1..Len(hex) : HexDigit(hex[i]) >= 0
          THEN Num(HexValue(hex) * Scale)
     ELSE IF IsUnsignedDecimal(Unsigned(s))
          THEN Num(SignOf(s) * UnsignedDecimalValue(Unsigned(s)))
     ELSE NaN

\* The cell of one field: null for a field the line does not have, the
\* text itself when parseFloat or Number gives NaN or the text is blank,
\* and the number parseFloat gives otherwise.
cellOfField(values, i) ==
  IF i > Len(values) THEN Null
  ELSE LET val == values[i]
           num == parseFloat(val)
       IN IF num.k = "nan" \/ Trim(val) = <<>> \/ ToNumber(val).k = "nan" THEN Str(val) ELSE num

\* The row of one data line: headers.forEach writes row[h] for each header
\* in turn, so the last header of a name gives its cell.
rowOfLine(hs, line) ==
  LET values == parseCSVLine(line)
      last(h) == CHOOSE i \in 1..Len(hs) : hs[i] = h /\ \A j \in (i + 1)..Len(hs) : hs[j] # h
  IN [h \in Range(hs) |-> cellOfField(values, last(h))]

\* The texts of the fields of the files: empty, '1', '-1.5', 'a', '0x1',
\* ' 1 ', the quoted '"a,b"' and '1a'.
CsvFields ==
  {<<>>, <<49>>, <<45, 49, 46, 53>>, <<97>>, <<48, 120, 49>>, <<32, 49, 32>>,
   <<34, 97, 44, 98, 34>>, <<49, 97>>}

\* The lines of one and of two fields.
CsvLines == CsvFields \cup {a \o <<44>> \o b : a \in CsvFields, b \in CsvFields}

\* The header lines 'a' and 'a,b'.
CsvHeaderLines == {<<97>>, <<97, 44, 98>>}

RECURSIVE JoinLines(_)
\* The lines joined by line feeds.
JoinLines(ls) ==
  IF ls = <<>> THEN <<>>
  ELSE IF Len(ls) = 1 THEN ls[1]
  ELSE ls[1] \o <<10>> \o JoinLines(Tail(ls))

\* The files picked for upload: the empty file, a file of one blank line,
\* and a header line followed by at most MaxCsvLines data lines.
CsvFiles ==
  {<<>>, <<32, 10>>}
  \cup {JoinLines(<<h>> \o ls) :
          h \in CsvHeaderLines, ls \in UNION {[1..n -> CsvLines] : n \in 0..MaxCsvLines}}

\* The application with a file picked and nothing uploaded yet.
InitUpload ==
  /\ data = <<>>
  /\ orderedHeaders = <<>>
  /\ searchTerm = S_empty
  /\ columnFilters = << >>
  /\ columnStats = <<>>
  /\ uniqueColumnValues = << >>
  /\ filteredData = <<>>
  /\ config = DefaultConfig
  /\ chartData = <<>>
  /\ lastOp = "init"
  /\ file \in CsvFiles
  /\ InitShell(<<>>)

\* handleFileUpload(file): a file with a line that is not blank replaces the
\* headers and the rows, opens the Data Studio and notifies; any other file
\* changes nothing.
handleFileUpload ==
  /\ LET lines == fileLines(file)
         hs == parseCSVLine(lines[1])
     IN IF lines # <<>>
        THEN /\ headers' = hs
             /\ data' = [i \in 1..(Len(lines) - 1) |-> rowOfLine(hs, lines[i + 1])]
             /\ currentView' = "DATA"
             /\ notification' = "Successfully loaded records"
             /\ timers' = notified
        ELSE UNCHANGED <<headers, data, currentView, notification, timers>>
  /\ lastOp' = "handleFileUpload"
  /\ UNCHANGED <<orderedHeaders, searchTerm, columnFilters, columnStats,
                 uniqueColumnValues, filteredData, config, chartData>>
  /\ UNCHANGED <<file, dashboardItems, chatMessages, loading, now, isLocked,
                 enableSnap, lastArgs, itemsIsPrev, requests>>

NextUpload == handleFileUpload

SpecUpload == InitUpload /\ [][NextUpload]_vars

----------------------------------------------------------------------------
\* The data cleaning of App.tsx

\* Number(v) of a cell.
NumberOf(v) ==
  CASE v.k = "number" -> v
    [] v.k = "string" -> ToNumber(v.s)
    [] v.k = "boolean" -> Num(v.n * Scale)
    [] v.k = "null" -> Num(0)
    [] OTHER -> NaN

\* handleAiCleanData(column, operation) on the rows: the new rows, the
\* notification, the count its message reports and whether it set the
\* notification; an operation that is none of the three copies the rows.
handleAiCleanData(rows, column, operation, oldNotification) ==
  LET numbers == SelectSeq([i \in 1..Len(rows) |-> NumberOf(Get(rows[i], column))],
                           LAMBDA v : v.k = "number")
      ns == [i \in 1..Len(numbers) |-> numbers[i].n]
      values == SortNumeric(ns)
      q1 == values[(Len(values) \div 4) + 1]
      q3 == values[((3 * Len(values)) \div 4) + 1]
      iqr == q3 - q1
      inRange(r) ==
        LET v == NumberOf(Get(r, column))
        IN v.k = "nan" \/ (2 * v.n >= 2 * q1 - 3 * iqr /\ 2 * v.n <= 2 * q3 + 3 * iqr)
      mean == IF ns = <<>> THEN 0 ELSE ToFixed2(SumSeq(ns), Len(ns))
      missing(r) ==
        LET val == Get(r, column)
        IN val.k = "null" \/ val = Str(S_empty) \/ val.k = "undefined"
           \/ NumberOf(val).k = "nan"
      imputed(r) == [h \in DOMAIN r \cup {column} |-> IF h = column THEN Num(mean) ELSE r[h]]
      kept == IF Len(values) > 4 THEN SelectSeq(rows, inRange) ELSE rows
      present == SelectSeq(rows, LAMBDA r : ~missing(r))
  IN CASE operation = "remove_outliers" ->
            [rows |-> kept, notification |-> "Outliers removed",
             count |-> Len(rows) - Len(kept), set |-> TRUE]
       [] operation = "impute_mean" ->
            [rows |-> [i \in 1..Len(rows) |-> IF missing(rows[i]) THEN imputed(rows[i]) ELSE rows[i]],
             notification |-> "Imputed mean",
             count |-> Len(SelectSeq(rows, missing)), set |-> TRUE]
       [] operation = "drop_missing" ->
            [rows |-> present, notification |-> "Dropped rows with missing values",
             count |-> Len(rows) - Len(present), set |-> TRUE]
       [] OTHER -> [rows |-> rows, notification |-> oldNotification, count |-> 0, set |-> FALSE]

\* The cleaning on its own: onCleanData(column, operation) replaces the rows
\* and notifies; the rows it was given and the count of its message are
\* recorded with the call.
onCleanData(column, operation) ==
  /\ LET cleaned == handleAiCleanData(data, column, operation, notification)
     IN /\ data' = cleaned.rows
        /\ notification' = cleaned.notification
        /\ timers' = IF cleaned.set THEN notified ELSE timers
        /\ lastArgs' = [column |-> column, operation |-> operation, prevData |-> data,
                        count |-> cleaned.count]
  /\ lastOp' = "onCleanData"
  /\ UNCHANGED <<orderedHeaders, searchTerm, columnFilters, columnStats,
                 uniqueColumnValues, filteredData, config, chartData>>
  /\ UNCHANGED <<file, headers, currentView, dashboardItems, chatMessages, loading,
                 now, isLocked, enableSnap, itemsIsPrev, requests>>

\* The cells of the cleaned column: missing ones, numbers, numeric text and
\* other text.
CleanCells ==
  {Null, Undefined, Str(S_empty), Num(10 * Scale), Num(20 * Scale), Str(S_1), Str(S_B)}

\* A row has an id and, unless the cell is undefined, the column v.
CleanRow(i, cell) ==
  IF cell = Undefined THEN [id |-> Num(i * Scale)]
  ELSE [id |-> Num(i * Scale), v |-> cell]

CleanDataSets ==
  UNION {{[i \in 1..n |-> CleanRow(i, cells[i])] : cells \in [1..n -> CleanCells]} :
           n \in 0..MaxCleanRows}

InitClean ==
  /\ data \in CleanDataSets
  /\ orderedHeaders = <<"id", "v">>
  /\ searchTerm = S_empty
  /\ columnFilters = << >>
  /\ columnStats = <<>>
  /\ uniqueColumnValues = << >>
  /\ filteredData = <<>>
  /\ config = DefaultConfig
  /\ chartData = <<>>
  /\ lastOp = "init"
  /\ InitApp(orderedHeaders)

NextClean ==
  \E operation \in {"remove_outliers", "impute_mean", "drop_missing"} :
    onCleanData("v", operation)

SpecClean == InitClean /\ [][NextClean]_vars

----------------------------------------------------------------------------
\* The chat of views/AiInsights.tsx

\* A chat message; the content is a template and what fills it.
Message(id, role, template, args, isToolOutput) ==
  [id |-> id, role |-> role, content |-> [template |-> template, args |-> args],
   isToolOutput |-> isToolOutput]

\* handleAiUpdateViz(config): the configuration with its aggregation
\* defaulted to 'sum'.
handleAiUpdateViz(cfg) ==
  [cfg EXCEPT !.aggregation = IF cfg.aggregation = "" THEN "sum" ELSE cfg.aggregation]

\* The body of the loop over the tool calls for one call, on the state st of
\* the configuration, the view, the rows, the notification and the messages.
handleToolCall(st, call, clock) ==
  LET args == call.args
  IN CASE call.name = "generateVisualization" ->
            [st EXCEPT
               !.config = handleAiUpdateViz(
                  [type |-> args.type, xAxisKey |-> args.xAxisKey,
                   yAxisKeys |-> IF args.yAxisKey # "" THEN <<args.yAxisKey>> ELSE <<>>,
                   zAxisKey |-> "", aggregation |-> ""]),
               !.view = "VISUALIZE",
               !.messages = Append(@, Message(clock, "model", "Generated a chart for",
                                              <<args.type, args.xAxisKey>>, TRUE))]
       [] call.name = "cleanData" ->
            LET cleaned == handleAiCleanData(st.rows, args.column, args.operation,
                                             st.notification)
            IN [st EXCEPT
                  !.rows = cleaned.rows,
                  !.notification = cleaned.notification,
                  !.notified = @ \/ cleaned.set,
                  !.messages = Append(@, Message(clock, "model", "Executed on column",
                                                 <<args.operation, args.column>>, TRUE))]
       [] call.name = "addToDashboard" ->
            [st EXCEPT
               !.messages = Append(@, Message(clock, "model",
                                              "Added the current chart to dashboard.",
                                              <<>>, TRUE))]
       [] OTHER -> st

RECURSIVE handleToolCalls(_, _, _)
\* The loop over the tool calls in order.
handleToolCalls(st, calls, clock) ==
  IF calls = <<>> THEN st
  ELSE handleToolCalls(handleToolCall(st, Head(calls), clock), Tail(calls), clock)

\* The number of messages the user has sent.
Sent == Len(SelectSeq(chatMessages, LAMBDA m : m.role = "user"))

\* handleSend up to the request: a text that is not blank, typed while no
\* response is awaited, joins the chat and the chat awaits the response.
sendRequest(input) ==
  /\ Trim(input) # <<>>
  /\ ~loading
  /\ chatMessages' = Append(chatMessages, Message(now, "user", "input", input, FALSE))
  /\ loading' = TRUE
  /\ requests' = [requests EXCEPT !.own = @ + 1]
  /\ lastOp' = "handleSend"
  /\ lastArgs' = input
  /\ UNCHANGED <<data, orderedHeaders, searchTerm, columnFilters, columnStats,
                 uniqueColumnValues, filteredData, config, chartData>>
  /\ UNCHANGED <<file, headers, currentView, notification, dashboardItems, now,
                 isLocked, enableSnap, itemsIsPrev, timers>>

\* handleSend up to the request, of the chat on its own.
handleSend(input) == Sent < MaxSends /\ sendRequest(input)

\* handleSend from the response on: the text of the response joins the
\* chat, each tool call is handled in turn, and a failed request leaves the
\* apology.
receiveResponse(response) ==
  /\ LET withText ==
           IF response.text # ""
           THEN Append(chatMessages, Message(now, "model", "text", <<response.text>>, FALSE))
           ELSE chatMessages
     IN IF response.failed
        THEN /\ chatMessages' = Append(chatMessages,
                                       Message(now, "model", "Sorry, I encountered an error",
                                               <<>>, FALSE))
             /\ UNCHANGED <<config, currentView, data, notification, timers>>
        ELSE \E st \in {handleToolCalls(
                           [config |-> config, view |-> currentView, rows |-> data,
                            notification |-> notification, notified |-> FALSE,
                            messages |-> withText],
                           response.functionCalls, now)} :
               /\ chatMessages' = st.messages
               /\ config' = st.config
               /\ currentView' = st.view
               /\ data' = st.rows
               /\ notification' = st.notification
               /\ timers' = IF st.notified THEN notified ELSE timers
  /\ lastArgs' = response
  /\ UNCHANGED <<orderedHeaders, searchTerm, columnFilters, columnStats,
                 uniqueColumnValues, filteredData, chartData>>
  /\ UNCHANGED <<file, headers, dashboardItems, now, isLocked, enableSnap, itemsIsPrev>>

\* The request of the mounted chat returns or throws: finally the chat no
\* longer awaits a response.
handleResponse(response) ==
  /\ loading
  /\ receiveResponse(response)
  /\ loading' = FALSE
  /\ requests' = [requests EXCEPT !.own = @ - 1]
  /\ lastOp' = "handleResponse"

\* The request of a chat that was unmounted returns or throws: its messages
\* and tool calls reach the application, and its setLoading(false) no chat.
handleOrphanResponse(response) ==
  /\ requests.orphaned > 0
  /\ receiveResponse(response)
  /\ requests' = [requests EXCEPT !.orphaned = @ - 1]
  /\ lastOp' = "handleOrphanResponse"
  /\ UNCHANGED loading

\* The tool calls of the responses.
generateVisualizationCall(type, x, y, z) ==
  [name |-> "generateVisualization",
   args |-> [type |-> type, xAxisKey |-> x, yAxisKey |-> y, zAxisKey |-> z, title |-> "t"]]

cleanDataCall(column, operation) ==
  [name |-> "cleanData", args |-> [column |-> column, operation |-> operation]]

addToDashboardCall == [name |-> "addToDashboard", args |-> [note |-> "n"]]

ToolCalls ==
  {generateVisualizationCall("bar", "c", "", ""),
   generateVisualizationCall("box", "c", "v", ""),
   generateVisualizationCall("bubble", "c", "v", "z"),
   cleanDataCall("v", "remove_outliers"), cleanDataCall("v", "impute_mean"),
   cleanDataCall("v", "drop_missing"), addToDashboardCall}

\* The responses: a failed request, and a response with or without a text
\* and with no tool call, one tool call, or one of three pairs of them.
Responses ==
  {[failed |-> TRUE, text |-> "", functionCalls |-> <<>>]}
  \cup {[failed |-> FALSE, text |-> t, functionCalls |-> cs] :
          t \in {"", "ok"},
          cs \in {<<>>} \cup {<<c>> : c \in ToolCalls}
                \cup {<<addToDashboardCall, addToDashboardCall>>,
                      <<generateVisualizationCall("bubble", "c", "v", "z"), addToDashboardCall>>,
                      <<generateVisualizationCall("bar", "c", "", ""),
                        generateVisualizationCall("box", "c", "v", "")>>}}

\* The texts typed into the chat: a blank one, 'hi' and 'yo'.
ChatInputs == {<<32>>, <<104, 105>>, <<121, 111>>}

\* The row sets the chat is opened over: none, one row, and seven rows of
\* one category whose values are 1, 1, 2.004, 1, 100, null and a text.
ChatDataSets ==
  {<<>>,
   <<[c |-> Str(S_B), v |-> Null]>>,
   [i \in 1..7 |->
      [c |-> Str(S_B),
       v |-> <<Num(Scale), Num(Scale), Num(2004), Num(Scale), Num(100 * Scale), Null,
               Str(S_B)>>[i]]]}

InitChat ==
  /\ data \in ChatDataSets
  /\ orderedHeaders = <<"c", "v">>
  /\ searchTerm = S_empty
  /\ columnFilters = << >>
  /\ columnStats = <<>>
  /\ uniqueColumnValues = << >>
  /\ filteredData = <<>>
  /\ config = DefaultConfig
  /\ chartData = <<>>
  /\ lastOp = "init"
  /\ InitApp(orderedHeaders)

NextChat ==
  \/ \E input \in ChatInputs : handleSend(input)
  \/ \E response \in Responses : handleResponse(response)

SpecChat == InitChat /\ [][NextChat]_vars

----------------------------------------------------------------------------
\* The dashboard items of App.tsx

\* ' (Copy)'
S_Copy == <<32, 40, 67, 111, 112, 121, 41>>

\* A dashboard item is the chart configuration with an id, a place, a size,
\* a layer and a position lock; the title is 'B' for every configuration,
\* and the display options, which no handler here reads, are left out.
DashboardItem(cfg, id, x, y) ==
  [config |-> cfg, title |-> S_B, id |-> id, x |-> x, y |-> y, width |-> 400,
   height |-> 300, zIndex |-> 10, isLocked |-> FALSE]

\* The index of the first item with an id, 0 without one: findIndex + 1.
findIndex(items, id) ==
  LET found == {i \in 1..Len(items) : items[i].id = id}
  IN IF found = {} THEN 0 ELSE CHOOSE i \in found : \A j \in found : i <= j

\* { ...currentItem, ...updates }
merged(item, updates) ==
  [f \in DOMAIN item \cup DOMAIN updates |->
     IF f \in DOMAIN updates THEN updates[f] ELSE item[f]]

\* The updater that overwrites every item of the id.
updateItems_everyItemOfId(prev, id, updates) ==
  [next |-> [i \in 1..Len(prev) |->
               IF prev[i].id = id THEN merged(prev[i], updates) ELSE prev[i]],
   isPrev |-> FALSE]

\* The updater of handleUpdateDashboardItem(id, updates): the list it was
\* given when no item has the id or no updated field differs, and else a
\* copy with the first item of the id overwritten.
updateItems(prev, id, updates) ==
  LET index == findIndex(prev, id)
      currentItem == prev[index]
      hasChanges == \E key \in DOMAIN updates :
                      key \notin DOMAIN currentItem \/ updates[key] # currentItem[key]
  IN IF index = 0 THEN [next |-> prev, isPrev |-> TRUE]
     ELSE IF ~hasChanges THEN [next |-> prev, isPrev |-> TRUE]
     ELSE [next |-> [prev EXCEPT ![index] = merged(currentItem, updates)], isPrev |-> FALSE]

\* The updater of handleRemoveFromDashboard(id).
removeItems(prev, id) == SelectSeq(prev, LAMBDA item : item.id # id)

\* What the handlers of the items leave alone.
UnchangedByItems ==
  /\ UNCHANGED <<data, orderedHeaders, searchTerm, columnFilters, columnStats,
                 uniqueColumnValues, filteredData, config, chartData>>
  /\ UNCHANGED <<file, headers, currentView, chatMessages, loading, isLocked, enableSnap,
                 requests>>

\* The handler that ran last and what it was called with.
Called(op, args) == lastOp' = op /\ lastArgs' = args

\* handleAddToDashboard(config), called dt milliseconds after the last
\* reading of the clock: the new item takes the clock as its id and a place
\* by the number of items.
addToDashboard(cfg, dt) ==
  /\ Len(dashboardItems) < MaxItems
  /\ now + dt <= MaxClock
  /\ now' = now + dt
  /\ LET count == Len(dashboardItems)
     IN dashboardItems' =
          Append(dashboardItems,
                 DashboardItem(cfg, now', 20 + (count % 5) * 40, 20 + (count % 5) * 40))
  /\ notification' = "Added to Dashboard"
  /\ timers' = notified
  /\ itemsIsPrev' = FALSE
  /\ UnchangedByItems

\* handleAddToDashboard(config) on its own.
handleAddToDashboard(cfg, dt) ==
  addToDashboard(cfg, dt) /\ Called("handleAddToDashboard", [config |-> cfg])

\* handleDuplicate(id), called dt milliseconds after the last reading of the
\* clock, and the ADD it dispatches: a copy of the first item of the id, 20
\* to the right and 20 down, with the clock as its id and ' (Copy)' after
\* its title, joins the list.
duplicate(id, dt) ==
  /\ findIndex(dashboardItems, id) # 0
  /\ Len(dashboardItems) < MaxItems
  /\ now + dt <= MaxClock
  /\ LET original == dashboardItems[findIndex(dashboardItems, id)]
     IN /\ original.x + 20 <= MaxCoord
        /\ original.y + 20 <= MaxCoord
        /\ dashboardItems' =
             Append(dashboardItems,
                    [original EXCEPT !.id = now + dt, !.x = original.x + 20,
                                     !.y = original.y + 20,
                                     !.title = original.title \o S_Copy])
  /\ now' = now + dt
  /\ notification' = "Chart Duplicated"
  /\ timers' = notified
  /\ itemsIsPrev' = FALSE
  /\ UnchangedByItems

\* handleDuplicate(id) on its own.
handleDuplicate(id, dt) == duplicate(id, dt) /\ Called("handleDuplicate", [id |-> id])

\* The state after handleUpdateDashboardItem(id, updates).
updateDashboardItem(id, updates) ==
  /\ dashboardItems' = updateItems(dashboardItems, id, updates).next
  /\ itemsIsPrev' = updateItems(dashboardItems, id, updates).isPrev
  /\ UNCHANGED <<now, notification, timers>>
  /\ UnchangedByItems

\* handleUpdateDashboardItem(id, updates), as the board calls it: a call
\* that returns the list it was given leaves the state as it is, and is no
\* step of the board.
onUpdateItem(id, updates) ==
  /\ ~updateItems(dashboardItems, id, updates).isPrev
  /\ updateDashboardItem(id, updates)

\* handleUpdateDashboardItem(id, updates) on its own.
handleUpdateDashboardItem(id, updates) ==
  /\ updateDashboardItem(id, updates)
  /\ Called("handleUpdateDashboardItem", [id |-> id, updates |-> updates])

\* handleRemoveFromDashboard(id), as the board calls it.
onRemoveItem(id) ==
  /\ dashboardItems' = removeItems(dashboardItems, id)
  /\ itemsIsPrev' = FALSE
  /\ UNCHANGED <<now, notification, timers>>
  /\ UnchangedByItems

\* handleRemoveFromDashboard(id) on its own.
handleRemoveFromDashboard(id) ==
  onRemoveItem(id) /\ Called("handleRemoveFromDashboard", [id |-> id])

\* The updates the handlers are called with: a place, and the size an item
\* is created with.
ItemUpdates == {[x |-> 0, y |-> 0], [width |-> 400, height |-> 300]}

\* The application over a row set, with an empty board.
InitItems ==
  /\ data = <<[c |-> Str(S_B), v |-> Num(Scale)]>>
  /\ orderedHeaders = <<"c", "v">>
  /\ searchTerm = S_empty
  /\ columnFilters = << >>
  /\ columnStats = <<>>
  /\ uniqueColumnValues = << >>
  /\ filteredData = <<>>
  /\ config = DefaultConfig
  /\ chartData = <<>>
  /\ lastOp = "init"
  /\ InitApp(orderedHeaders)

\* The handlers of the items on their own, the clock standing still or
\* advancing by a millisecond between two calls.
NextItems ==
  \/ \E dt \in {0, 1} : handleAddToDashboard(config, dt)
  \/ \E id \in 0..MaxClock : \E dt \in {0, 1} : handleDuplicate(id, dt)
  \/ \E id \in 0..MaxClock : \E updates \in ItemUpdates :
       handleUpdateDashboardItem(id, updates)
  \/ \E id \in 0..MaxClock : handleRemoveFromDashboard(id)

SpecItems == InitItems /\ [][NextItems]_vars

----------------------------------------------------------------------------
\* The board of views/Dashboard.tsx

SNAP_THRESHOLD == 15

GRID_SIZE == 20

PADDING == 40

CARD_W == 400

CARD_H == 300

Max(a, b) == IF a >= b THEN a ELSE b

\* Math.round(n / GRID_SIZE) * GRID_SIZE: a half rounds up.
snapToGrid(n) == ((2 * n + GRID_SIZE) \div (2 * GRID_SIZE)) * GRID_SIZE

\* The edge of another item a dragged edge snaps to: each item other than
\* the dragged one, in list order, replaces the place by its near edge and
\* then by its far edge when the rounded place is within the threshold.
RECURSIVE snapToItems(_, _, _, _, _, _, _)
snapToItems(items, draggingId, near, extent, newPos, snapped, i) ==
  IF i > Len(items) THEN snapped
  ELSE LET other == items[i]
           one == IF Abs(newPos - other[near]) < SNAP_THRESHOLD
                  THEN other[near] ELSE snapped
           two == IF Abs(newPos - (other[near] + other[extent])) < SNAP_THRESHOLD
                  THEN other[near] + other[extent] ELSE one
       IN IF other.id = draggingId
          THEN snapToItems(items, draggingId, near, extent, newPos, snapped, i + 1)
          ELSE snapToItems(items, draggingId, near, extent, newPos, two, i + 1)

\* The place a drag to mouse - dragOffset leaves the item at.
dragged(items, draggingId, near, extent, pos) ==
  LET newPos == IF enableSnap THEN snapToGrid(pos) ELSE pos
      snapped == IF enableSnap
                 THEN snapToItems(items, draggingId, near, extent, newPos, newPos, 1)
                 ELSE newPos
  IN Max(0, snapped)

\* The extent a resize to initialDim + delta leaves the item with.
resized(least, extent) ==
  Max(least, IF enableSnap THEN snapToGrid(extent) ELSE extent)

\* The board is on the screen: the view is the dashboard and there are rows.
BoardShown == currentView = "DASHBOARD" /\ Len(data) > 0

\* The guard of startDrag and of startResize, no item being edited.
startDrag(item) == ~isLocked /\ ~item.isLocked

\* handleContextMenu opens the menu of an item on an unlocked board only.
handleContextMenu == ~isLocked

\* The mouse goes down on the header of item i, moves by move and goes up:
\* startDrag, handleMouseMove with a draggingId, handleMouseUp.
handleMouseMoveDragging(i, move) ==
  /\ BoardShown
  /\ i \in 1..Len(dashboardItems)
  /\ LET item == dashboardItems[findIndex(dashboardItems, dashboardItems[i].id)]
         x == dragged(dashboardItems, item.id, "x", "width", item.x + move[1])
         y == dragged(dashboardItems, item.id, "y", "height", item.y + move[2])
     IN /\ startDrag(item)
        /\ x <= MaxCoord /\ y <= MaxCoord
        /\ onUpdateItem(item.id, [x |-> x, y |-> y])
  /\ Called("Dashboard", <<>>)

\* The mouse goes down on the resize handle of item i, moves by move and
\* goes up: startResize, handleMouseMove with a resizingId, handleMouseUp.
handleMouseMoveResizing(i, move) ==
  /\ BoardShown
  /\ i \in 1..Len(dashboardItems)
  /\ LET item == dashboardItems[findIndex(dashboardItems, dashboardItems[i].id)]
         width == resized(200, dashboardItems[i].width + move[1])
         height == resized(150, dashboardItems[i].height + move[2])
     IN /\ startDrag(item)
        /\ width <= 200 + MaxCoord /\ height <= 150 + MaxCoord
        /\ onUpdateItem(item.id, [width |-> width, height |-> height])
  /\ Called("Dashboard", <<>>)

\* toggleProperty(itemId, 'isLocked') from the header button of item i; the
\* context menu of an unlocked board makes the same call.
toggleProperty(i) ==
  /\ BoardShown
  /\ i \in 1..Len(dashboardItems)
  /\ LET item == dashboardItems[findIndex(dashboardItems, dashboardItems[i].id)]
     IN onUpdateItem(item.id, [isLocked |-> ~item.isLocked])
  /\ Called("Dashboard", <<>>)

\* The trash button in the header of item i; the context menu of an
\* unlocked board makes the same call.
headerRemove(i) ==
  /\ BoardShown
  /\ i \in 1..Len(dashboardItems)
  /\ onRemoveItem(dashboardItems[i].id)
  /\ Called("Dashboard", <<>>)

\* "Duplicate" of the context menu of item i, a millisecond or more after
\* the last reading of the clock.
menuDuplicate(i) ==
  /\ BoardShown
  /\ handleContextMenu
  /\ i \in 1..Len(dashboardItems)
  /\ duplicate(dashboardItems[i].id, 1)
  /\ Called("Dashboard", <<>>)

\* Math.floor(a / b) for a divisor of either sign.
floorDiv(a, b) == IF b > 0 THEN a \div b ELSE (0 - a) \div (0 - b)

\* The columns of the automatic layout: || 1 replaces 0 only.
colsOf(offsetWidth) ==
  LET containerWidth == IF offsetWidth = 0 THEN 1200 ELSE offsetWidth
      cols == floorDiv(containerWidth - PADDING, CARD_W + PADDING)
  IN IF cols = 0 THEN 1 ELSE cols

\* The updates of handleAutoLayout, one for each item of the list the
\* handler was created with, applied one after the other.
RECURSIVE autoLayout(_, _, _, _)
autoLayout(items, cols, st, i) ==
  IF i > Len(items) THEN st
  ELSE LET index == i - 1
           row == floorDiv(index, cols)
           col == index % Abs(cols)
           u == updateItems(st.next, items[i].id,
                            [x |-> PADDING + col * (CARD_W + PADDING),
                             y |-> PADDING + row * (CARD_H + PADDING),
                             width |-> CARD_W, height |-> CARD_H])
       IN autoLayout(items, cols, [next |-> u.next, isPrev |-> st.isPrev /\ u.isPrev], i + 1)

\* handleAutoLayout on a canvas that is offsetWidth wide.
handleAutoLayout(offsetWidth) ==
  /\ BoardShown
  /\ LET st == autoLayout(dashboardItems, colsOf(offsetWidth),
                          [next |-> dashboardItems, isPrev |-> TRUE], 1)
     IN /\ ~st.isPrev
        /\ dashboardItems' = st.next
        /\ itemsIsPrev' = st.isPrev
  /\ Called("Dashboard", <<>>)
  /\ UNCHANGED <<now, notification, timers>>
  /\ UnchangedByItems

\* The removals of handleClearAll, one for each item.
RECURSIVE clearAll(_, _, _)
clearAll(items, next, i) ==
  IF i > Len(items) THEN next
  ELSE clearAll(items, removeItems(next, items[i].id), i + 1)

\* handleClearAll, from "Confirm Clear".
handleClearAll ==
  /\ BoardShown
  /\ dashboardItems' = clearAll(dashboardItems, dashboardItems, 1)
  /\ itemsIsPrev' = FALSE
  /\ Called("Dashboard", <<>>)
  /\ UNCHANGED <<now, notification, timers>>
  /\ UnchangedByItems

\* What the buttons of the board's header leave alone.
UnchangedByBoard ==
  /\ UNCHANGED <<data, orderedHeaders, searchTerm, columnFilters, columnStats,
                 uniqueColumnValues, filteredData, config, chartData>>
  /\ UNCHANGED <<file, headers, chatMessages, dashboardItems, now,
                 notification, itemsIsPrev, timers>>

\* setIsLocked(!isLocked)
setIsLocked ==
  /\ BoardShown
  /\ isLocked' = ~isLocked
  /\ Called("Dashboard", <<>>)
  /\ UNCHANGED <<currentView, enableSnap, loading, requests>>
  /\ UnchangedByBoard

\* setEnableSnap(!enableSnap)
setEnableSnap ==
  /\ BoardShown
  /\ enableSnap' = ~enableSnap
  /\ Called("Dashboard", <<>>)
  /\ UNCHANGED <<currentView, isLocked, loading, requests>>
  /\ UnchangedByBoard

\* onNavigate(view) of the sidebar: the view that is left is unmounted, and
\* the board that is mounted again starts unlocked, with snapping, and the
\* chat that is mounted again awaits no response: the request of the chat
\* that was left is still on its way.
onNavigate(view) ==
  /\ view # currentView
  /\ currentView' = view
  /\ isLocked' = FALSE
  /\ enableSnap' = TRUE
  /\ loading' = FALSE
  /\ requests' = [own |-> 0, orphaned |-> requests.orphaned + requests.own]
  /\ Called("Sidebar", <<>>)
  /\ UnchangedByBoard

\* handleAddToBoard of the chart builder, a millisecond or more after the
\* last reading of the clock.
handleAddToBoard ==
  /\ currentView = "VISUALIZE"
  /\ addToDashboard(config, 1)
  /\ Called("Visualization", <<>>)

\* The movements of the mouse between button down and button up.
DragMoves == {<<0 - 30, 0 - 30>>}

ResizeMoves == {<<0 - 250, 0 - 250>>}

\* The widths of the canvas: not laid out, narrower than the padding, wide.
OffsetWidths == {0, 20, 1200}

NextBoard ==
  \/ \E view \in {"DASHBOARD", "VISUALIZE"} : onNavigate(view)
  \/ handleAddToBoard
  \/ setIsLocked
  \/ setEnableSnap
  \/ \E i \in 1..MaxItems : \E move \in DragMoves : handleMouseMoveDragging(i, move)
  \/ \E i \in 1..MaxItems : \E move \in ResizeMoves : handleMouseMoveResizing(i, move)
  \/ \E i \in 1..MaxItems : toggleProperty(i)
  \/ \E i \in 1..MaxItems : headerRemove(i)
  \/ \E i \in 1..MaxItems : menuDuplicate(i)
  \/ \E offsetWidth \in OffsetWidths : handleAutoLayout(offsetWidth)
  \/ handleClearAll

SpecBoard == InitItems /\ [][NextBoard]_vars

----------------------------------------------------------------------------
\* The chat and the sidebar

\* handleSend up to the request, of the chat that is on the screen.
handleSendMounted(input) ==
  /\ currentView = "INSIGHTS"
  /\ Sent < MaxRequests
  /\ sendRequest(input)

\* The responses of the requests: a failed one, a text, and a tool call that
\* opens the chart builder.
RequestResponses ==
  {[failed |-> TRUE, text |-> "", functionCalls |-> <<>>],
   [failed |-> FALSE, text |-> "ok", functionCalls |-> <<>>],
   [failed |-> FALSE, text |-> "", functionCalls |-> <<generateVisualizationCall("bar", "c", "", "")>>]}

\* The chat with the sidebar: the user opens and leaves the chat, and a
\* request returns at any time after it was sent.
NextRequests ==
  \/ \E view \in {"DASHBOARD", "INSIGHTS"} : onNavigate(view)
  \/ \E input \in ChatInputs : handleSendMounted(input)
  \/ \E response \in RequestResponses : handleResponse(response)
  \/ \E response \in RequestResponses : handleOrphanResponse(response)

SpecRequests == InitItems /\ [][NextRequests]_vars

----------------------------------------------------------------------------
\* The notification of App.tsx

\* The "Notification Auto-hide" effect, run after the render that follows a
\* change of the notification: the cleanup of the effect before it clears
\* the timer that is armed, and a notification that is not null arms one.
notificationEffect ==
  /\ timers.effectPending
  /\ timers' = [armed |-> IF notification = "none" THEN "none" ELSE "current",
                effectPending |-> FALSE]
  /\ Called("notificationEffect", <<>>)
  /\ UNCHANGED <<data, orderedHeaders, searchTerm, columnFilters, columnStats,
                 uniqueColumnValues, filteredData, config, chartData>>
  /\ UNCHANGED <<file, headers, currentView, notification, dashboardItems, chatMessages,
                 loading, now, isLocked, enableSnap, itemsIsPrev, requests>>

\* The timer that is armed fires after its 4 seconds: setNotification(null),
\* and the effect has to run for the change; the timer was armed for the
\* notification recorded with the call.
timerFires ==
  /\ timers.armed # "none"
  /\ notification' = "none"
  /\ timers' = [armed |-> "none",
                effectPending |-> timers.effectPending \/ notification # "none"]
  /\ Called("timerFires", [armed |-> timers.armed, hidden |-> notification])
  /\ UNCHANGED <<data, orderedHeaders, searchTerm, columnFilters, columnStats,
                 uniqueColumnValues, filteredData, config, chartData>>
  /\ UNCHANGED <<file, headers, currentView, dashboardItems, chatMessages,
                 loading, now, isLocked, enableSnap, itemsIsPrev, requests>>

\* The cleaning, which the chat calls when a response has arrived, the
\* effect and the timer, each a task of its own.
NextNotify ==
  \/ \E operation \in {"impute_mean", "drop_missing"} : onCleanData("v", operation)
  \/ notificationEffect
  \/ timerFires

SpecNotify == InitClean /\ [][NextNotify]_vars

----------------------------------------------------------------------------
\* Properties of the file upload

\* A file with a header line has been uploaded.
Uploaded == lastOp = "handleFileUpload" /\ fileLines(file) # <<>>

\* The cell the typing rule stated for the parser gives field j of a line:
\* null for an empty or a missing field, the number of a decimal text, and
\* the text otherwise.
TypedCell(values, j) ==
  IF j > Len(values) \/ values[j] = <<>> THEN Null
  ELSE IF ParsesAsDecimal(values[j]) THEN Num(parseDecimal(values[j]))
  ELSE Str(values[j])

\* C14: after an upload every row has exactly the header names as keys, a
\* field whose text parses as a decimal number is stored as that number, any
\* other non-empty text is kept as text, and an empty field or a field the
\* line is too short for is stored as null.
C14_TypedRows ==
  Uploaded =>
    LET lines == fileLines(file)
        hs == parseCSVLine(lines[1])
    IN /\ headers = hs
       /\ Len(data) = Len(lines) - 1
       /\ \A i \in 1..Len(data) :
            /\ DOMAIN data[i] = Range(hs)
            /\ \A j \in 1..Len(hs) :
                 (\A k \in (j + 1)..Len(hs) : hs[k] # hs[j]) =>
                   data[i][hs[j]] = TypedCell(parseCSVLine(lines[i + 1]), j)

----------------------------------------------------------------------------
\* Properties of the chat

\* The calls of a name among the tool calls of a response.
CallsOf(response, name) == SelectSeq(response.functionCalls, LAMBDA c : c.name = name)

\* A response with a generateVisualization call has been handled.
VisualizationCalled ==
  /\ lastOp = "handleResponse"
  /\ ~lastArgs.failed
  /\ CallsOf(lastArgs, "generateVisualization") # <<>>

\* The arguments of the last generateVisualization call handled.
LastVisualizationArgs ==
  LET calls == CallsOf(lastArgs, "generateVisualization") IN calls[Len(calls)].args

\* C15: after a generateVisualization tool call the visualization
\* configuration has the type, xAxisKey and zAxisKey of the call, yAxisKeys
\* is [yAxisKey] when one is given and [] otherwise, the aggregation is
\* 'sum', and the current view is the Visualization view.
C15_ToolCallMapped ==
  VisualizationCalled =>
    /\ config.type = LastVisualizationArgs.type
    /\ config.xAxisKey = LastVisualizationArgs.xAxisKey
    /\ config.zAxisKey = LastVisualizationArgs.zAxisKey
    /\ config.yAxisKeys = IF LastVisualizationArgs.yAxisKey # ""
                          THEN <<LastVisualizationArgs.yAxisKey>> ELSE <<>>
    /\ config.aggregation = "sum"
    /\ currentView = "VISUALIZE"

\* The number of messages that report a chart added to the dashboard.
AddedReports(messages) ==
  Len(SelectSeq(messages,
                LAMBDA m : m.content.template = "Added the current chart to dashboard."))

\* C16: handling a response adds one dashboard item for each addToDashboard
\* call of it, and the chat reports no more additions than were made.
C16_AddToDashboardAdds ==
  [][(lastOp' = "handleResponse" /\ ~lastArgs'.failed) =>
       /\ Len(dashboardItems') =
            Len(dashboardItems) + Len(CallsOf(lastArgs', "addToDashboard"))
       /\ AddedReports(chatMessages') - AddedReports(chatMessages) <=
            Len(dashboardItems') - Len(dashboardItems)]_vars

----------------------------------------------------------------------------
\* Properties of the dashboard items

\* C18: no two dashboard items have the same id.
C18_UniqueIds ==
  \A i, j \in 1..Len(dashboardItems) :
    i # j => dashboardItems[i].id # dashboardItems[j].id

\* The indices of the items that do not have an id, in ascending order.
RECURSIVE IndicesWithout(_, _, _)
IndicesWithout(items, id, i) ==
  IF i > Len(items) THEN <<>>
  ELSE IF items[i].id # id THEN <<i>> \o IndicesWithout(items, id, i + 1)
  ELSE IndicesWithout(items, id, i + 1)

\* What handleUpdateDashboardItem(id, updates) may do to the items.
UpdatesOneItem(id, updates) ==
  LET target == findIndex(dashboardItems, id)
      same == \A f \in DOMAIN updates : f \in DOMAIN dashboardItems[target]
                                          /\ updates[f] = dashboardItems[target][f]
  IN /\ Len(dashboardItems') = Len(dashboardItems)
     /\ \A i \in 1..Len(dashboardItems) : i # target => dashboardItems'[i] = dashboardItems[i]
     /\ target # 0 =>
          /\ DOMAIN dashboardItems'[target] = DOMAIN dashboardItems[target] \cup DOMAIN updates
          /\ \A f \in DOMAIN updates : dashboardItems'[target][f] = updates[f]
          /\ \A f \in DOMAIN dashboardItems[target] \ DOMAIN updates :
               dashboardItems'[target][f] = dashboardItems[target][f]
     /\ (target = 0 \/ same) => (itemsIsPrev' /\ dashboardItems' = dashboardItems)

\* What handleRemoveFromDashboard(id) may do to the items.
RemovesItemsOfId(id) ==
  LET kept == IndicesWithout(dashboardItems, id, 1)
  IN /\ Len(dashboardItems') = Len(kept)
     /\ \A k \in 1..Len(kept) : dashboardItems'[k] = dashboardItems[kept[k]]

\* C19: handleUpdateDashboardItem(id, updates) keeps the length and the
\* order of the list and every item but the first of the id, overwrites
\* exactly the updated fields of that one, and returns the list it was given
\* when no item has the id or every updated field has its value already;
\* handleRemoveFromDashboard(id) removes exactly the items of the id and
\* keeps the others in order.
C19_UpdateAndRemoveFrame ==
  [][/\ lastOp' = "handleUpdateDashboardItem" =>
          UpdatesOneItem(lastArgs'.id, lastArgs'.updates)
     /\ lastOp' = "handleRemoveFromDashboard" => RemovesItemsOfId(lastArgs'.id)]_vars

\* An update has moved the first of two items of one id and left the second
\* where it was.
C19_Witness ==
  /\ lastOp = "handleUpdateDashboardItem"
  /\ ~itemsIsPrev
  /\ Len(dashboardItems) = 2
  /\ dashboardItems[1].id = dashboardItems[2].id
  /\ dashboardItems[1].id = lastArgs.id
  /\ dashboardItems[1].x = 0 /\ dashboardItems[2].x = 60

----------------------------------------------------------------------------
\* Properties of the board

\* C17: while the board is locked no action of the board changes the place
\* or the size of an item or removes an item.
C17_LockedBoardKeepsItems ==
  [][isLocked =>
       \A i \in 1..Len(dashboardItems) :
         \E j \in 1..Len(dashboardItems') :
           /\ dashboardItems'[j].id = dashboardItems[i].id
           /\ dashboardItems'[j].x = dashboardItems[i].x
           /\ dashboardItems'[j].y = dashboardItems[i].y
           /\ dashboardItems'[j].width = dashboardItems[i].width
           /\ dashboardItems'[j].height = dashboardItems[i].height]_vars

\* C20: every item of the board has x >= 0, y >= 0, width >= 200 and
\* height >= 150.
C20_ItemsInBounds ==
  \A i \in 1..Len(dashboardItems) :
    /\ dashboardItems[i].x >= 0
    /\ dashboardItems[i].y >= 0
    /\ dashboardItems[i].width >= 200
    /\ dashboardItems[i].height >= 150

----------------------------------------------------------------------------
\* Properties of the data cleaning

\* The value is missing: null, undefined or ''.
IsMissingValue(val) == val.k = "null" \/ val.k = "undefined" \/ val = Str(S_empty)

\* The value is numeric: it is not missing and it reads as a number.
IsNumericValue(val) == ~IsMissingValue(val) /\ NumberOf(val).k = "number"

\* The numbers of the numeric values of a column, in row order.
NumericValuesOf(rows, column) ==
  LET cells == SelectSeq([i \in 1..Len(rows) |-> Get(rows[i], column)], IsNumericValue)
  IN [i \in 1..Len(cells) |-> NumberOf(cells[i]).n]

\* The rows are those of before with every field but the column's as it was.
SameButColumn(before, after, column) ==
  /\ DOMAIN after = DOMAIN before \cup {column}
  /\ \A h \in DOMAIN before \ {column} : after[h] = before[h]

\* C21: impute_mean keeps the number and the order of the rows and every row
\* whose value is numeric, replaces every other value of the column by the
\* mean of the numeric values rounded to 2 decimals, and reports the number
\* of values it replaced.
C21_ImputeMean ==
  (lastOp = "onCleanData" /\ lastArgs.operation = "impute_mean") =>
    LET prevData == lastArgs.prevData
        column == lastArgs.column
        ns == NumericValuesOf(prevData, column)
        replaced == {i \in 1..Len(prevData) : ~IsNumericValue(Get(prevData[i], column))}
    IN /\ Len(data) = Len(prevData)
       /\ \A i \in 1..Len(prevData) \ replaced : data[i] = prevData[i]
       /\ \A i \in replaced :
            /\ SameButColumn(prevData[i], data[i], column)
            /\ ns # <<>> => data[i][column] = Num(ToFixed2(SumSeq(ns), Len(ns)))
       /\ lastArgs.count = Cardinality(replaced)

\* The indices of the rows whose value in a column is not missing, in
\* ascending order.
RECURSIVE IndicesPresent(_, _, _)
IndicesPresent(rows, column, i) ==
  IF i > Len(rows) THEN <<>>
  ELSE IF IsMissingValue(Get(rows[i], column)) THEN IndicesPresent(rows, column, i + 1)
  ELSE <<i>> \o IndicesPresent(rows, column, i + 1)

\* C22: drop_missing removes exactly the rows whose value in the column is
\* missing, keeps the others as they are and in order, reports the number of
\* rows it dropped, and drops nothing when it is applied again.
C22_DropMissing ==
  (lastOp = "onCleanData" /\ lastArgs.operation = "drop_missing") =>
    LET prevData == lastArgs.prevData
        column == lastArgs.column
        kept == IndicesPresent(prevData, column, 1)
    IN /\ Len(data) = Len(kept)
       /\ \A k \in 1..Len(kept) : data[k] = prevData[kept[k]]
       /\ lastArgs.count = Len(prevData) - Len(kept)
       /\ handleAiCleanData(data, column, "drop_missing", notification).rows = data

----------------------------------------------------------------------------
\* Properties of the requests of the chat

\* C23: at most one request to the model is outstanding at any time, and
\* the message of the user is in the chat before any reply to it.
C23_OneRequestOutstanding ==
  /\ requests.own + requests.orphaned <= 1
  /\ lastOp = "handleSend" =>
       chatMessages[Len(chatMessages)] = Message(now, "user", "input", lastArgs, FALSE)

----------------------------------------------------------------------------
\* Properties of the notification

\* C24: a timer that was started for an older notification never hides a
\* newer one: the timer that hides a notification is the one armed for it.
C24_TimerHidesItsOwnNotification ==
  [][(lastOp' = "timerFires" /\ notification # "none") => timers.armed = "current"]_vars

----------------------------------------------------------------------------
\* Properties of the duplication

\* C25: handleDuplicate(id) of an item on the board appends exactly one item,
\* which equals the original in every field but a fresh id, x and y 20 more
\* and the title with ' (Copy)' after it, and leaves every item that was on
\* the board as it was.
C25_DuplicateAppendsCopy ==
  [][lastOp' = "handleDuplicate" =>
       LET original == dashboardItems[findIndex(dashboardItems, lastArgs'.id)]
           copy == dashboardItems'[Len(dashboardItems')]
       IN /\ Len(dashboardItems') = Len(dashboardItems) + 1
          /\ \A i \in 1..Len(dashboardItems) : dashboardItems'[i] = dashboardItems[i]
          /\ DOMAIN copy = DOMAIN original
          /\ \A f \in DOMAIN original \ {"id", "x", "y", "title"} : copy[f] = original[f]
          /\ copy.x = original.x + 20
          /\ copy.y = original.y + 20
          /\ copy.title = original.title \o S_Copy
          /\ \A i \in 1..Len(dashboardItems) : dashboardItems[i].id # copy.id]_vars

====
